---------------------------- MODULE Spec2Model ----------------------------
(***************************************************************************)
(* Discord Yoink: backup chains (src/src/backup_chain.py) and the server   *)
(* recreator (src/src/server_recreator.py).                                *)
(*                                                                         *)
(* Three specifications share the variables of this module:                *)
(*   SpecMerge     BackupChain.merge_chain applied to bounded chains       *)
(*   SpecDiscover  BackupChain._discover_chains applied to bounded         *)
(*                 directories                                             *)
(*   Spec          ServerRecreator: preview_recreation and recreate_server *)
(*                 run call by call against a target guild                 *)
(* Timestamps are ISO-8601 strings of one UTC offset in the code; they     *)
(* compare as the instants they denote, and are naturals here.             *)
(***************************************************************************)
EXTENDS Integers, Sequences, FiniteSets, TLC

VARIABLES
    files,      \* path -> parsed JSON document of the snapshot at that path
    chain,      \* the argument of merge_chain: a sequence of chain entries
    merged,     \* what merge_chain produced: [status, data]
    backup_files, \* the paths glob returned, in the order it returned them
    chains,     \* BackupChain.chains: chain_key -> chain
    scanned,    \* whether _discover_chains has run
    backup_data,     \* the snapshot handed to the recreator
    guild,           \* the target guild as the platform holds it
    config,          \* restore_max_messages, ignore_*_limit, skip_media
    role_mapping,    \* ServerRecreator.role_mapping: old id -> new id
    channel_mapping, \* ServerRecreator.channel_mapping: old id -> new id
    stats,           \* ServerRecreator.stats
    pc,              \* where recreate_server stands
    todo,            \* what the running loop has still to visit
    messages_to_restore, \* rest of the list the message loop iterates
    webhook,         \* the webhook of the channel being restored, or None
    preview,         \* what preview_recreation returned
    run,             \* how many times recreate_server has been started
    next_id,         \* the id the platform gives the next created entity
    fail_budget,     \* how many platform calls may still fail
    starting,        \* history: the guild when the current run started
    calls,           \* history: the platform calls issued, in order
    cancel_budget,   \* how many runs may still be cancelled
    cancelled,       \* history: the runs that were cancelled
    original         \* history: the guild before the first run

chainVars == <<files, chain, merged, backup_files, chains, scanned>>

recreatorVars ==
    <<backup_data, guild, config, role_mapping, channel_mapping, stats, pc,
      todo, messages_to_restore, webhook, preview, run, next_id, fail_budget,
      starting, calls, cancel_budget, cancelled, original>>

cancelVars == <<cancel_budget, cancelled, original>>

vars == <<chainVars, recreatorVars>>

\* Python's None.
None == 0

\* No recreator exists: the state of the recreator's variables in the
\* specifications of the backup chain.
RecreatorIdle ==
    /\ backup_data = None
    /\ guild = None
    /\ config = None
    /\ role_mapping = <<>>
    /\ channel_mapping = <<>>
    /\ stats = None
    /\ pc = "none"
    /\ todo = <<>>
    /\ messages_to_restore = <<>>
    /\ webhook = None
    /\ preview = None
    /\ run = 0
    /\ next_id = 0
    /\ fail_budget = 0
    /\ starting = None
    /\ calls = <<>>
    /\ cancel_budget = 0
    /\ cancelled = {}
    /\ original = None

(***************************************************************************)
(* Bounds of the inputs.                                                   *)
(***************************************************************************)
MaxChain == 3       \* longest chain handed to merge_chain
MaxMsgId == 3       \* message ids 1..MaxMsgId
MaxFiles == 3       \* files in the scanned directory
MaxTick == 2        \* backup timestamps 0..MaxTick, in ticks

ChanIds == {"c1", "c2"}
RoleIds == {"r1", "r2"}
EmojiIds == {"e1"}
StickerIds == {"s1"}

RECURSIVE SumOver(_, _)
SumOver(f, S) ==
    IF S = {} THEN 0
    ELSE LET x == CHOOSE y \in S : TRUE IN f[x] + SumOver(f, S \ {x})

(***************************************************************************)
(* The capture pass (backup_manager.py, discord_client.py): what a         *)
(* snapshot file holds.                                                    *)
(***************************************************************************)
\* created_at of message i: ids and instants are not ordered alike, and two
\* messages may share an instant.
TimestampOf(i) == (i % 2) + 1

\* get_message_info: the record of message i as captured by pass k (the
\* content of a message may have been edited between two passes).
get_message_info(i, k) == [id |-> i, timestamp |-> TimestampOf(i), content |-> k]

\* channel.history(oldest_first=False): newest first.
Newest(S) ==
    CHOOSE i \in S : \A j \in S :
        \/ TimestampOf(i) > TimestampOf(j)
        \/ TimestampOf(i) = TimestampOf(j) /\ i >= j

RECURSIVE get_channel_history(_)
get_channel_history(S) ==
    IF S = {} THEN <<>>
    ELSE <<Newest(S)>> \o get_channel_history(S \ {Newest(S)})

\* _backup_channel_messages: the history in the order it was read.
_backup_channel_messages(S, k) ==
    LET h == get_channel_history(S)
    IN  [n \in 1..Len(h) |-> get_message_info(h[n], k)]

\* list.sort(key=timestamp): stable, ascending (insertion of each element
\* after the elements that are not later than it).
RECURSIVE InsertByTimestamp(_, _)
InsertByTimestamp(sorted, m) ==
    IF sorted = <<>> THEN <<m>>
    ELSE IF sorted[Len(sorted)].timestamp <= m.timestamp
         THEN Append(sorted, m)
         ELSE Append(InsertByTimestamp(SubSeq(sorted, 1, Len(sorted) - 1), m),
                     sorted[Len(sorted)])

RECURSIVE SortByTimestamp(_)
SortByTimestamp(s) ==
    IF s = <<>> THEN <<>>
    ELSE InsertByTimestamp(SortByTimestamp(SubSeq(s, 1, Len(s) - 1)), s[Len(s)])


(***************************************************************************)
(* BackupChain.merge_chain (backup_chain.py 119-236).  A channel record    *)
(* always carries its "messages" list here.                                *)
(***************************************************************************)
MessageIds(messages) == {messages[n].id : n \in DOMAIN messages}

\* Every message of the incremental, present already or not.
NewMessages_All(existing_messages, new_messages) == new_messages

\* 169-174: the messages of the incremental whose id is not yet present.
NewMessages(existing_messages, new_messages) ==
    LET existing_msg_ids == MessageIds(existing_messages)
    IN  SelectSeq(new_messages, LAMBDA msg : msg.id \notin existing_msg_ids)

\* MergeMessages without the sort of line 177.
MergeMessages_Unsorted(existing_messages, new_messages) ==
    existing_messages \o NewMessages(existing_messages, new_messages)

\* 159-178: append them, then sort the whole list by timestamp.
MergeMessages(existing_messages, new_messages) ==
    SortByTimestamp(existing_messages \o NewMessages(existing_messages, new_messages))

\* 156-192: one incremental's channels folded into the merged channels.
MergeChannels(merged_channels, incremental_channels) ==
    [channel_id \in DOMAIN merged_channels \cup DOMAIN incremental_channels |->
        IF channel_id \notin DOMAIN incremental_channels
        THEN merged_channels[channel_id]
        ELSE IF channel_id \in DOMAIN merged_channels
        THEN [merged_channels[channel_id] EXCEPT
                 !.messages = MergeMessages(@, incremental_channels[channel_id].messages)]
        ELSE incremental_channels[channel_id]]

\* A count of every message an incremental holds, new or not.
MessagesAdded_Undeduplicated(merged_channels, incremental_channels) ==
    SumOver([channel_id \in DOMAIN incremental_channels |->
                Len(incremental_channels[channel_id].messages)],
            DOMAIN incremental_channels)

\* 170-189: total_messages_added of one incremental.
MessagesAdded(merged_channels, incremental_channels) ==
    LET added == [channel_id \in DOMAIN incremental_channels |->
                    IF channel_id \in DOMAIN merged_channels
                    THEN Len(NewMessages(merged_channels[channel_id].messages,
                                         incremental_channels[channel_id].messages))
                    ELSE Len(incremental_channels[channel_id].messages)]
    IN  SumOver(added, DOMAIN incremental_channels)

\* A merge of two dicts in which the entry already present wins.
DictUpdate_KeepExisting(base, update) ==
    [id \in DOMAIN base \cup DOMAIN update |->
        IF id \in DOMAIN base THEN base[id] ELSE update[id]]

\* 195-199: dict.update, the incremental's entry wins.
DictUpdate(base, update) ==
    [id \in DOMAIN base \cup DOMAIN update |->
        IF id \in DOMAIN update THEN update[id] ELSE base[id]]

\* 147-203: one iteration of the loop over chain[1:].
ApplyIncremental(acc, incremental_backup) ==
    IF ~incremental_backup.is_incremental
    THEN acc                                             \* 141-145
    ELSE LET incremental_data == files[incremental_backup.path]
             md == acc.merged_data
         IN  [merged_data |->
                 [md EXCEPT
                     !.channels = MergeChannels(@, incremental_data.channels),
                     !.roles = DictUpdate(@, incremental_data.roles),
                     !.emojis = DictUpdate(@, incremental_data.emojis),
                     !.stickers = DictUpdate(@, incremental_data.stickers)],
              total_messages_added |->
                 acc.total_messages_added
                 + MessagesAdded(md.channels, incremental_data.channels),
              total_media_added |->
                 acc.total_media_added + incremental_data.stats.media_files]

RECURSIVE ApplyIncrementals(_, _, _)
ApplyIncrementals(acc, ch, n) ==
    IF n > Len(ch) THEN acc
    ELSE ApplyIncrementals(ApplyIncremental(acc, ch[n]), ch, n + 1)

\* dict.get(key, default) on a stats dict.
StatGet(stats_dict, key, default) == IF key \in DOMAIN stats_dict THEN stats_dict[key] ELSE default

\* 220-230: total_messages is updated, total_media_files is written.
MergedStats(stats_dict, total_messages_added, total_media_added) ==
    [key \in DOMAIN stats_dict \cup {"total_messages", "total_media_files"} |->
        IF key = "total_messages"
        THEN StatGet(stats_dict, "total_messages", 0) + total_messages_added
        ELSE IF key = "total_media_files"
        THEN StatGet(stats_dict, "media_files", 0) + total_media_added
        ELSE stats_dict[key]]

\* 205-218: the stamp (version, the clock's timestamp and the generated name
\* are left out).
MergedBackupInfo(ch, total_messages_added, total_media_added) ==
    [incremental |-> FALSE,
     chain_info |->
        [full_backup |-> ch[1].path,
         incremental_backups |-> [n \in 1..(Len(ch) - 1) |-> ch[n + 1].path],
         total_backups_merged |-> Len(ch),
         messages_added_from_incrementals |-> total_messages_added,
         media_added_from_incrementals |-> total_media_added]]

\* LoadFull putting every channel's messages in timestamp order.
LoadFull_Resorted(full_backup) ==
    [files[full_backup.path] EXCEPT
        !.channels = [c \in DOMAIN @ |->
                         [@[c] EXCEPT !.messages = SortByTimestamp(@)]]]

\* 131-133: json.load of the full backup's file.
LoadFull(full_backup) == files[full_backup.path]

\* 119-236.
\* 127-129: the test of the chain's first entry.
StartsWithFull_Unchecked(ch) == TRUE

StartsWithFull(ch) == ~ch[1].is_incremental

merge_chain(ch) ==
    IF ch = <<>> THEN [status |-> "ValueError", data |-> "Cannot merge empty chain"]
    ELSE IF ~StartsWithFull(ch)
    THEN [status |-> "ValueError", data |-> "Chain must start with a full backup"]
    ELSE LET acc == ApplyIncrementals(
                        [merged_data |-> LoadFull(ch[1]),
                         total_messages_added |-> 0,
                         total_media_added |-> 0], ch, 2)
             md == acc.merged_data
         IN  [status |-> "returned",
              data |-> [md EXCEPT
                  !.backup_info = MergedBackupInfo(ch, acc.total_messages_added,
                                                   acc.total_media_added),
                  !.stats = MergedStats(@, acc.total_messages_added,
                                        acc.total_media_added)]]

(***************************************************************************)
(* Snapshot files as the capture pass writes them (backup_manager.py       *)
(* 75-129).  k tags the pass: the attributes it recorded may differ from   *)
(* those another pass recorded for the same id.                            *)
(***************************************************************************)
\* get_channel_info plus the channel's messages.  A file written by the
\* capture pass lists them newest first; a file written by an earlier merge
\* lists them oldest first.
ChannelRecord(channel_id, ids, k, oldest_first) ==
    [name |-> channel_id,
     topic |-> k,
     messages |-> IF oldest_first
                  THEN SortByTimestamp(_backup_channel_messages(ids, k))
                  ELSE _backup_channel_messages(ids, k)]

\* _calculate_stats (backup_manager.py 507-524): the counters merge reads.
SnapshotStats(channels, media) ==
    [total_messages |->
        SumOver([c \in DOMAIN channels |-> Len(channels[c].messages)], DOMAIN channels),
     media_files |-> media]

\* backup_data (backup_manager.py 75-124).  msgs maps the captured channel
\* ids to the ids of their captured messages.
Snapshot(k, incremental, msgs, role_ids, emoji_ids, sticker_ids, oldest_first) ==
    LET channels == [c \in DOMAIN msgs |-> ChannelRecord(c, msgs[c], k, oldest_first)]
    IN  [backup_info |-> [timestamp |-> k, incremental |-> incremental],
         server_info |-> [id |-> "s1", name |-> "srv"],
         channels |-> channels,
         roles |-> [r \in role_ids |-> [name |-> r, color |-> k]],
         members |-> [u \in {"u1"} |-> [username |-> u, status |-> k]],
         emojis |-> [e \in emoji_ids |-> [name |-> e, local_path |-> k]],
         stickers |-> [e \in sticker_ids |-> [name |-> e, local_path |-> k]],
         stats |-> SnapshotStats(channels,
                                 Cardinality(emoji_ids) + Cardinality(sticker_ids))]

\* The entry _discover_chains keeps for a file (backup_chain.py 57-66).
ChainEntry(path, data) ==
    [path |-> path,
     server_name |-> data.server_info.name,
     timestamp |-> data.backup_info.timestamp,
     is_incremental |-> data.backup_info.incremental]

\* What a pass may capture of channel "c1": nothing (the channel is not in
\* the file), or any set of its messages.
ChannelMaps == UNION {[D -> SUBSET (1..MaxMsgId)] : D \in SUBSET {"c1"}}

\* Channel "c2" is captured by the full backup only, with messages 1 and 2.
WithOtherChannel(cm, k) ==
    [c \in DOMAIN cm \cup (IF k = 1 THEN {"c2"} ELSE {}) |->
        IF c = "c2" THEN {1, 2} ELSE cm[c]]

\* The messages that exist on the source when pass k runs.
GrownIds(k) == {i \in 1..MaxMsgId : i <= k}

(***************************************************************************)
(* SpecMerge: merge_chain applied once to a chain.                         *)
(***************************************************************************)
\* A base and its incrementals, the messages of "c1" drawn freely.
InitMergeMessages ==
    \E n \in 1..MaxChain :
    \E cm \in [1..n -> ChannelMaps] :
    \E oldest_first \in BOOLEAN :
        /\ files = [k \in 1..n |->
                      Snapshot(k, k > 1, WithOtherChannel(cm[k], k), {"r1"}, {}, {},
                               oldest_first /\ k = 1)]
        /\ chain = [k \in 1..n |-> ChainEntry(k, files[k])]

\* Any chain, well formed or not, the role and emoji maps drawn freely; the
\* sticker is captured by the passes that follow the first.
InitMergeMaps ==
    \E n \in 0..MaxChain :
    \E inc \in [1..n -> BOOLEAN] :
    \E rs \in [1..n -> SUBSET RoleIds] :
    \E es \in [1..n -> SUBSET EmojiIds] :
        /\ files = [k \in 1..n |->
                      Snapshot(k, inc[k], [c \in {"c1"} |-> GrownIds(k)],
                               rs[k], es[k], IF k > 1 THEN StickerIds ELSE {}, FALSE)]
        /\ chain = [k \in 1..n |-> ChainEntry(k, files[k])]

InitMerge ==
    /\ InitMergeMessages \/ InitMergeMaps
    /\ merged = [status |-> "none"]
    /\ backup_files = <<>>
    /\ chains = <<>>
    /\ scanned = FALSE
    /\ RecreatorIdle

\* The call of merge_chain(chain).
MergeChain ==
    /\ merged.status = "none"
    /\ merged' = merge_chain(chain)
    /\ UNCHANGED <<files, chain, backup_files, chains, scanned, recreatorVars>>

NextMerge == MergeChain

SpecMerge == InitMerge /\ [][NextMerge]_vars

(***************************************************************************)
(* Properties of merge_chain.                                              *)
(***************************************************************************)
Returned == merged.status = "returned"

\* [Full, Inc1, ..., Inck]: a base followed by incrementals only.
FullThenIncrementals ==
    /\ chain # <<>>
    /\ ~chain[1].is_incremental
    /\ \A n \in 2..Len(chain) : chain[n].is_incremental

Full == files[chain[1].path]

\* The ids of channel c's messages over all snapshots of the chain.
ChainMessageIds(c) ==
    UNION {MessageIds(files[chain[n].path].channels[c].messages) :
              n \in {m \in 1..Len(chain) : c \in DOMAIN files[chain[m].path].channels}}

\* Some incremental of the chain contains channel c.
Touched(c) ==
    \E n \in 2..Len(chain) : c \in DOMAIN files[chain[n].path].channels

EachIdOnce(messages) ==
    \A a, b \in DOMAIN messages : messages[a].id = messages[b].id => a = b

Ascending(messages) ==
    \A a, b \in DOMAIN messages :
        a < b => messages[a].timestamp <= messages[b].timestamp

C2_SingleChannels ==
    (Returned /\ Len(chain) = 1) => merged.data.channels = Full.channels

\* A one-element chain whose snapshot holds a channel of three messages.
C2_Witness ==
    /\ Returned
    /\ Len(chain) = 1
    /\ "c1" \in DOMAIN Full.channels
    /\ Len(Full.channels["c1"].messages) = 3
    /\ "c2" \in DOMAIN merged.data.channels
    /\ ~Ascending(merged.data.channels["c1"].messages)

\* C3 as claimed: merging the one-element chain [S] returns S in every
\* section other than backup_info, stats (keys and values) included.
C3_AsClaimed ==
    (Returned /\ Len(chain) = 1) =>
        /\ merged.data.server_info = Full.server_info
        /\ merged.data.channels = Full.channels
        /\ merged.data.roles = Full.roles
        /\ merged.data.members = Full.members
        /\ merged.data.emojis = Full.emojis
        /\ merged.data.stickers = Full.stickers
        /\ DOMAIN merged.data.stats = DOMAIN Full.stats
        /\ \A key \in DOMAIN Full.stats : merged.data.stats[key] = Full.stats[key]

\* The positions of the chain whose snapshots are merged: the base and the
\* entries after it that are incremental.
MergedPositions == {1} \cup {k \in 2..Len(chain) : chain[k].is_incremental}

\* The positions of merged snapshots whose map of the section holds id.
Holding(section, id) ==
    {k \in MergedPositions : id \in DOMAIN files[chain[k].path][section]}

Max(S) == CHOOSE k \in S : \A j \in S : j <= k

\* C20: for roles, emojis and stickers the merged map holds exactly the ids
\* of the base and of the merged incrementals, and the value of an id is the
\* entry of the last snapshot in chain order that holds it.
C20_LastWriterWins ==
    Returned =>
        \A section \in {"roles", "emojis", "stickers"} :
            /\ DOMAIN merged.data[section] =
                   UNION {DOMAIN files[chain[k].path][section] :
                             k \in MergedPositions}
            /\ \A id \in DOMAIN merged.data[section] :
                  merged.data[section][id] =
                      files[chain[Max(Holding(section, id))].path][section][id]

\* A merged chain of a base and two incrementals: a role held by all three,
\* a role held by the first incremental only, and a sticker the base lacks.
C20_Witness ==
    /\ Returned
    /\ MergedPositions = {1, 2, 3}
    /\ Holding("roles", "r1") = {1, 2, 3}
    /\ Holding("roles", "r2") = {2}
    /\ Holding("stickers", "s1") = {2, 3}

\* The messages a snapshot holds, over all its channels.
MessageCount(data) ==
    SumOver([c \in DOMAIN data.channels |-> Len(data.channels[c].messages)],
            DOMAIN data.channels)

\* C21: in the merged snapshot stats.total_messages is the base's
\* stats.total_messages plus the number of messages the incrementals added:
\* those appended to channels the base has and those of channels that are
\* new in an incremental, which is by how much the snapshot's messages grew.
C21_TotalMessages ==
    Returned =>
        /\ merged.data.stats.total_messages =
               Full.stats.total_messages
               + (MessageCount(merged.data) - MessageCount(Full))
        /\ merged.data.backup_info.chain_info.messages_added_from_incrementals =
               MessageCount(merged.data) - MessageCount(Full)

\* A merged chain of three: the base lacks channel c1, the first incremental
\* brings it with message 1, the second repeats message 1 and adds message 2.
C21_Witness ==
    /\ Returned
    /\ Len(chain) = 3
    /\ FullThenIncrementals
    /\ "c1" \notin DOMAIN Full.channels
    /\ "c1" \in DOMAIN files[2].channels
    /\ "c1" \in DOMAIN files[3].channels
    /\ MessageIds(files[2].channels["c1"].messages) = {1}
    /\ MessageIds(files[3].channels["c1"].messages) = {1, 2}
    /\ merged.data.stats.total_messages = Full.stats.total_messages + 2

\* C14: merge_chain raises ValueError, and returns no snapshot, when the
\* chain is empty or its first entry is incremental.
C14_InvalidChain ==
    (merged.status # "none" /\ (chain = <<>> \/ chain[1].is_incremental)) =>
        merged.status = "ValueError"

\* merge_chain has raised on a chain of several entries whose first is
\* incremental.
C14_Witness ==
    /\ merged.status = "ValueError"
    /\ Len(chain) > 1
    /\ chain[1].is_incremental

(***************************************************************************)
(* BackupChain._discover_chains (backup_chain.py 25-102).                  *)
(***************************************************************************)
ServerIds == {"s1", "s2"}
ServerNames == {"srv", "alt"}

\* 44-46 and the except of 68-69: a file that is no snapshot is skipped.
IsValidBackup(data) == "server_info" \in DOMAIN data

\* 48-66: the entry kept for the file at path.
BackupEntry(path) ==
    [path |-> path,
     server_name |-> files[path].server_info.name,
     timestamp |-> files[path].backup_info.timestamp,
     is_incremental |-> files[path].backup_info.incremental]

\* 39-69: the entries of the valid files, in the order the files were listed.
ScannedEntries(listing) ==
    LET valid == SelectSeq(listing, LAMBDA path : IsValidBackup(files[path]))
    IN  [n \in 1..Len(valid) |-> BackupEntry(valid[n])]

ServerIdOf(entry) == files[entry.path].server_info.id

\* ServerBackups grouping by the server's name instead of its id.
ServerBackups_ByName(entries, server_id) ==
    SelectSeq(entries, LAMBDA e :
        \E n \in DOMAIN entries :
            /\ ServerIdOf(entries[n]) = server_id
            /\ entries[n].server_name = e.server_name)

\* 54-57: server_backups[server_id], in insertion order.
ServerBackups(entries, server_id) ==
    SelectSeq(entries, LAMBDA e : ServerIdOf(e) = server_id)

\* The keys of server_backups in insertion order (the order of line 72).
RECURSIVE ServerOrder(_, _)
ServerOrder(entries, seen) ==
    IF entries = <<>> THEN <<>>
    ELSE IF ServerIdOf(Head(entries)) \in seen
         THEN ServerOrder(Tail(entries), seen)
         ELSE <<ServerIdOf(Head(entries))>>
              \o ServerOrder(Tail(entries), seen \cup {ServerIdOf(Head(entries))})

\* timestamp[:19]: the timestamp cut to whole seconds, of two ticks each.
First19(timestamp) == timestamp \div 2

\* 85, 97-99: f"{server_name}_{timestamp[:19]}" of the chain's full backup.
ChainKey(current_full) == <<current_full.server_name, First19(current_full.timestamp)>>

\* dict[key] = value.
DictSet(d, key, value) ==
    [k \in DOMAIN d \cup {key} |-> IF k = key THEN value ELSE d[k]]

\* BuildChains with an incremental opening a chain when none is open.
RECURSIVE BuildChains_OrphanOpens(_, _, _)
BuildChains_OrphanOpens(backups, open, result) ==
    IF backups = <<>>
    THEN IF open # <<>> THEN DictSet(result, ChainKey(open[1]), open) ELSE result
    ELSE LET backup == Head(backups)
         IN  IF ~backup.is_incremental
             THEN BuildChains_OrphanOpens(Tail(backups), <<backup>>,
                      IF open # <<>>
                      THEN DictSet(result, ChainKey(open[1]), open)
                      ELSE result)
             ELSE BuildChains_OrphanOpens(Tail(backups), Append(open, backup),
                                          result)

\* 80-100: the scan of one server's sorted backups.  The open chain is <<>>
\* while current_full is None, and starts with current_full otherwise.
RECURSIVE BuildChains(_, _, _)
BuildChains(backups, open, result) ==
    IF backups = <<>>
    THEN IF open # <<>> THEN DictSet(result, ChainKey(open[1]), open) ELSE result
    ELSE LET backup == Head(backups)
         IN  IF ~backup.is_incremental
             THEN BuildChains(Tail(backups), <<backup>>,
                      IF open # <<>>
                      THEN DictSet(result, ChainKey(open[1]), open)
                      ELSE result)
             ELSE BuildChains(Tail(backups),
                      IF open # <<>> THEN Append(open, backup) ELSE open,
                      result)

\* DiscoverServers without the sort of line 74.
RECURSIVE DiscoverServers_Unsorted(_, _, _)
DiscoverServers_Unsorted(entries, servers, result) ==
    IF servers = <<>> THEN result
    ELSE DiscoverServers_Unsorted(entries, Tail(servers),
             BuildChains(ServerBackups(entries, Head(servers)), <<>>, result))

\* 72-100: server by server.
RECURSIVE DiscoverServers(_, _, _)
DiscoverServers(entries, servers, result) ==
    IF servers = <<>> THEN result
    ELSE DiscoverServers(entries, Tail(servers),
             BuildChains(SortByTimestamp(ServerBackups(entries, Head(servers))),
                         <<>>, result))

\* 25-102.
_discover_chains(listing) ==
    LET entries == ScannedEntries(listing)
    IN  DiscoverServers(entries, ServerOrder(entries, {}), <<>>)

\* 29-34: glob of "**/*.json" (recursive: the directory's own files and those
\* below it) followed by glob of "*.json" (the directory's own files again).
GlobListing(paths, top_level) ==
    paths \o SelectSeq(paths, LAMBDA path : top_level[path])

(***************************************************************************)
(* SpecDiscover: the constructor's scan of a directory.                    *)
(***************************************************************************)
\* A snapshot file as far as the scan reads it.
ScannedFile(server_id, server_name, timestamp, incremental) ==
    [backup_info |-> [timestamp |-> timestamp, incremental |-> incremental],
     server_info |-> [id |-> server_id, name |-> server_name],
     stats |-> [total_messages |-> 0, media_files |-> 0]]

\* A JSON file that is no snapshot.
OtherJson == [settings |-> "x"]

\* What a file of the directory may be: no snapshot, a snapshot in a
\* directory of its own (where the capture pass writes backup.json), or a
\* full snapshot in the scanned directory itself (where save_merged_backup
\* writes, 242-244).
DirectoryFiles ==
    {[top_level |-> FALSE, valid |-> FALSE]} \cup
    {f \in [top_level : BOOLEAN, valid : {TRUE}, server_id : ServerIds,
            timestamp : 0..MaxTick, incremental : BOOLEAN] :
        f.top_level => ~f.incremental}

\* The files are numbered in the order the directory lists them.  Server
\* "s1" is named "srv"; server "s2" has that name too, or another.
InitDiscover ==
    /\ \E n \in 0..MaxFiles :
       \E fs \in [1..n -> DirectoryFiles] :
       \E name2 \in ServerNames :
           /\ files = [k \in 1..n |->
                 IF fs[k].valid
                 THEN ScannedFile(fs[k].server_id,
                                  IF fs[k].server_id = "s1" THEN "srv" ELSE name2,
                                  fs[k].timestamp, fs[k].incremental)
                 ELSE OtherJson]
           /\ backup_files = GlobListing([k \in 1..n |-> k],
                                         [k \in 1..n |-> fs[k].top_level])
    /\ chains = <<>>
    /\ scanned = FALSE
    /\ chain = <<>>
    /\ merged = [status |-> "none"]
    /\ RecreatorIdle

\* BackupChain(backup_dir): __init__ runs _discover_chains.
Discover ==
    /\ ~scanned
    /\ chains' = _discover_chains(backup_files)
    /\ scanned' = TRUE
    /\ UNCHANGED <<files, chain, merged, backup_files, recreatorVars>>

NextDiscover == Discover

SpecDiscover == InitDiscover /\ [][NextDiscover]_vars

(***************************************************************************)
(* Properties of _discover_chains.                                         *)
(***************************************************************************)
Paths == DOMAIN files

ValidPaths == {path \in Paths : IsValidBackup(files[path])}

\* The paths of the entries of the chain stored under key.
ChainPaths(key) == {chains[key][n].path : n \in DOMAIN chains[key]}

\* C4: every chain returned by discovery holds snapshots of one server_id
\* only, whatever names and timestamps the servers' snapshots share.
C4_OneServerPerChain ==
    scanned =>
        \A key \in DOMAIN chains :
            \A a, b \in ChainPaths(key) :
                files[a].server_info.id = files[b].server_info.id

\* Two servers with a base of the same name and the same timestamp, and a
\* returned chain that holds a base and an incremental.
C4_Witness ==
    /\ scanned
    /\ \E a, b \in ValidPaths :
          /\ files[a].server_info.id # files[b].server_info.id
          /\ files[a].server_info.name = files[b].server_info.name
          /\ files[a].backup_info.timestamp = files[b].backup_info.timestamp
          /\ ~files[a].backup_info.incremental
          /\ ~files[b].backup_info.incremental
    /\ \E key \in DOMAIN chains : Cardinality(ChainPaths(key)) >= 2

\* The server of path has a non-incremental snapshot whose timestamp is at
\* or before that of path.
HasPrecedingBase(path) ==
    \E b \in ValidPaths :
        /\ files[b].server_info.id = files[path].server_info.id
        /\ ~files[b].backup_info.incremental
        /\ files[b].backup_info.timestamp <= files[path].backup_info.timestamp

\* C5: an incremental snapshot whose server_id has no non-incremental
\* snapshot at or before it in timestamp order is in no returned chain.
C5_OrphanExcluded ==
    scanned =>
        \A path \in ValidPaths :
            (files[path].backup_info.incremental /\ ~HasPrecedingBase(path)) =>
                \A key \in DOMAIN chains : path \notin ChainPaths(key)

\* An incremental with no base at or before it, whose server has a later
\* base with an incremental of its own, that chain being returned.
C5_Witness ==
    /\ scanned
    /\ \E path \in ValidPaths :
          /\ files[path].backup_info.incremental
          /\ ~HasPrecedingBase(path)
          /\ \E key \in DOMAIN chains :
                /\ Cardinality(ChainPaths(key)) >= 2
                /\ \A b \in ChainPaths(key) :
                      files[b].server_info.id = files[path].server_info.id

\* C17: every chain returned by discovery is non-empty, its first element
\* is non-incremental, every later element is incremental, and the
\* timestamps of its elements are non-decreasing.
C17_ChainShape ==
    scanned =>
        \A key \in DOMAIN chains :
            LET c == chains[key] IN
            /\ c # <<>>
            /\ ~c[1].is_incremental
            /\ \A n \in 2..Len(c) : c[n].is_incremental
            /\ \A n \in 1..(Len(c) - 1) : c[n].timestamp <= c[n + 1].timestamp

\* A returned chain of a base and two incrementals of different timestamps
\* that the directory listed in the other order.
C17_Witness ==
    /\ scanned
    /\ \E key \in DOMAIN chains :
          /\ Len(chains[key]) = 3
          /\ chains[key][2].timestamp < chains[key][3].timestamp
          /\ chains[key][3].path < chains[key][2].path

\* The valid non-incremental snapshot files.
BasePaths == {path \in ValidPaths : ~files[path].backup_info.incremental}

\* The keys of the returned chains whose first element is the file at path.
ChainsStartingAt(path) ==
    {key \in DOMAIN chains : chains[key][1].path = path}

\* C18 as the spec states it: every valid non-incremental snapshot file is
\* the first element of exactly one returned chain.
C18_AsClaimed ==
    scanned =>
        \A path \in BasePaths : Cardinality(ChainsStartingAt(path)) = 1

\* How many elements of the chain stored under key are the file at path.
Occurrences(key, path) ==
    Cardinality({n \in DOMAIN chains[key] : chains[key][n].path = path})

\* The bases of the server of path that are before it in timestamp order.
PrecedingBases(path) ==
    {b \in BasePaths :
        /\ files[b].server_info.id = files[path].server_info.id
        /\ files[b].backup_info.timestamp < files[path].backup_info.timestamp}

\* base is a latest base of its server at or before path: no base of that
\* server lies strictly between the two in timestamp order.
IsLatestBaseFor(base, path) ==
    /\ base \in BasePaths
    /\ files[base].server_info.id = files[path].server_info.id
    /\ files[base].backup_info.timestamp <= files[path].backup_info.timestamp
    /\ \A b \in PrecedingBases(path) :
          files[b].backup_info.timestamp <= files[base].backup_info.timestamp

\* C19 as the spec states it: an incremental snapshot with a base of its
\* server before it is an element, once, of exactly one returned chain, and
\* that chain starts with a latest base before it.
C19_AsClaimed ==
    scanned =>
        \A path \in ValidPaths \ BasePaths :
            PrecedingBases(path) # {} =>
                \E key \in DOMAIN chains :
                    /\ Occurrences(key, path) = 1
                    /\ IsLatestBaseFor(chains[key][1].path, path)
                    /\ \A other \in DOMAIN chains \ {key} :
                          Occurrences(other, path) = 0

(***************************************************************************)
(* The server recreator (src/src/server_recreator.py).                     *)
(*                                                                         *)
(* A dict of the snapshot is a sequence of its values in insertion order,  *)
(* each value carrying its key as "id".  The guild's collections are       *)
(* sequences in the order the library lists them, and the library's view   *)
(* of the guild is the platform's.  Ids are naturals; None is 0.           *)
(***************************************************************************)
MaxSnapChannels == 2    \* channels in the snapshot
MaxTargetChannels == 2  \* channels on the target before the first run
MaxSnapRoles == 2       \* roles in the snapshot, and their positions
MaxTargetRoles == 2     \* roles on the target besides @everyone
MaxAssets == 2          \* emojis, or stickers, in the snapshot
MaxMessages == 3        \* archived messages of a channel
MaxCap == 2             \* restore_max_messages 0..MaxCap
AssetLimit == 1         \* guild.emoji_limit and guild.sticker_limit
MaxFailures == 1        \* platform calls that fail in one history

\* str.lower() on the names that occur.
Lower(name) ==
    CASE name = "General" -> "general"
      [] name = "Mods" -> "mods"
      [] OTHER -> name

\* What a lookup that finds nothing returns.
NoEntity == [id |-> None]

\* A lookup that compares names without regard to case.
utils_get_IgnoreCase(iterable, name) ==
    LET found == {k \in DOMAIN iterable : Lower(iterable[k].name) = Lower(name)}
    IN  IF found = {} THEN NoEntity
        ELSE iterable[CHOOSE k \in found : \A j \in found : k <= j]

\* discord.utils.get(iterable, name=name): the first element of that name.
utils_get(iterable, name) ==
    LET found == {k \in DOMAIN iterable : iterable[k].name = name}
    IN  IF found = {} THEN NoEntity
        ELSE iterable[CHOOSE k \in found : \A j \in found : k <= j]

\* guild.get_channel(id).
get_channel(g, id) ==
    LET found == {k \in DOMAIN g.channels : g.channels[k].id = id}
    IN  IF found = {} THEN NoEntity ELSE g.channels[CHOOSE k \in found : TRUE]

\* guild.categories.
guild_categories(g) ==
    SelectSeq(g.channels, LAMBDA channel : channel.type = "category")

\* [x.name for x in seq]
NamesOf(seq) == [k \in DOMAIN seq |-> seq[k].name]

\* The elements of a sequence, as a set.
Range(seq) == {seq[k] : k \in DOMAIN seq}

\* 165-174 (and 103-112): the lowercased names of the snapshot.
\* The names to keep, were the snapshot's channels not consulted.
backup_channel_names_Empty(data) == {}

backup_channel_names(data) ==
    {Lower(channel_data.name) :
        channel_data \in {c \in Range(data.channels) : c.name # ""}}

backup_role_names(data) ==
    {Lower(role_data.name) :
        role_data \in {r \in Range(data.roles) : r.name # ""}}

\* 83-152: preview_recreation.  The lists are in the order the code appends.
preview_recreation(data, target_guild) ==
    LET existing_roles == {Lower(role.name) : role \in Range(target_guild.roles)}
        existing_channels ==
            {Lower(channel.name) : channel \in Range(target_guild.channels)}
        existing_emojis == {emoji.name : emoji \in Range(target_guild.emojis)}
    IN  [server_info |-> data.server_info,
         channels_to_remove |->
             SelectSeq(NamesOf(target_guild.channels),
                       LAMBDA name : Lower(name) \notin backup_channel_names(data)),
         roles_to_remove |->
             SelectSeq(NamesOf(target_guild.roles),
                       LAMBDA name : /\ name # "@everyone"
                                     /\ Lower(name) \notin backup_role_names(data)),
         roles_to_create |->
             SelectSeq(NamesOf(data.roles),
                       LAMBDA name : Lower(name) \notin existing_roles),
         channels_to_create |->
             SelectSeq(NamesOf(data.channels),
                       LAMBDA name : Lower(name) \notin existing_channels),
         emojis_to_upload |->
             SelectSeq(NamesOf(data.emojis),
                       LAMBDA name : name \notin existing_emojis),
         stickers_to_upload |-> <<>>,
         warnings |->
             SelectSeq(NamesOf(data.roles),
                       LAMBDA name : Lower(name) \in existing_roles)
             \o SelectSeq(NamesOf(data.channels),
                          LAMBDA name : Lower(name) \in existing_channels)
             \o SelectSeq(NamesOf(data.emojis),
                          LAMBDA name : name \in existing_emojis)]

\* The roles in the order of the snapshot's dict, not sorted.
SortByPosition_DictOrder(roles_data) == roles_data

\* 223: sorted(roles_data.items(), key=position), a stable sort.
RECURSIVE InsertByPosition(_, _)
InsertByPosition(sorted, role_data) ==
    IF sorted = <<>> THEN <<role_data>>
    ELSE IF role_data.position < Head(sorted).position
         THEN <<role_data>> \o sorted
         ELSE <<Head(sorted)>> \o InsertByPosition(Tail(sorted), role_data)

RECURSIVE SortByPosition(_)
SortByPosition(roles_data) ==
    IF roles_data = <<>> THEN <<>>
    ELSE InsertByPosition(SortByPosition(SubSeq(roles_data, 1, Len(roles_data) - 1)),
                          roles_data[Len(roles_data)])

\* 278-286: the split of the channels dict.
Categories(channels_data) ==
    SelectSeq(channels_data, LAMBDA channel_data : channel_data.type = "category")

RegularChannels(channels_data) ==
    SelectSeq(channels_data, LAMBDA channel_data : channel_data.type # "category")

MaxRuns == 2            \* runs of recreate_server in one history
MaxCancels == 1         \* runs cancelled in one history

\* 24-32: the stats of a fresh ServerRecreator.
FreshStats ==
    [channels_created |-> 0, channels_removed |-> 0, roles_created |-> 0,
     roles_removed |-> 0, messages_restored |-> 0, server_renamed |-> FALSE,
     errors |-> <<>>]

\* What a platform call can do: return, or raise discord.Forbidden, another
\* discord.HTTPException, or an exception of the transport beneath them.
Outcomes ==
    IF fail_budget > 0
    THEN {"ok", "Forbidden", "HTTPException", "ConnectionError"}
    ELSE {"ok"}

\* 182-193, 201-212, 636: an except clause that names discord.Forbidden and
\* discord.HTTPException lets every other exception through, to the except
\* clause of recreate_server (77-80), which records it and raises it again.
Propagates_HTTPException(outcome) == outcome \in {"HTTPException", "ConnectionError"}

Propagates(outcome) == outcome = "ConnectionError"

\* The record of one platform call in the history.
PlatformCall(op, name, id, outcome) ==
    [run |-> run, op |-> op, name |-> name, id |-> id, outcome |-> outcome]

\* The history and the failure budget after a platform call.
Issue(op, name, id, outcome) ==
    /\ calls' = Append(calls, PlatformCall(op, name, id, outcome))
    /\ fail_budget' = IF outcome = "ok" THEN fail_budget ELSE fail_budget - 1

\* self.stats["errors"].append(...)
WithError(s, text, name) ==
    [s EXCEPT !.errors = Append(@, [text |-> text, name |-> name])]

\* The platform's side of channel.delete(): the channel is gone, and the
\* channels of a deleted category have no category.
DeleteChannel(g, id) ==
    [g EXCEPT !.channels =
        LET kept == SelectSeq(@, LAMBDA channel : channel.id # id)
        IN  [k \in DOMAIN kept |->
                IF kept[k].category_id = id
                THEN [kept[k] EXCEPT !.category_id = None]
                ELSE kept[k]]]

\* The platform's side of role.delete().
DeleteRole(g, id) ==
    [g EXCEPT !.roles = SelectSeq(@, LAMBDA role : role.id # id)]

\* A preview that carries out the removals it lists.
Preview_Removing ==
    /\ pc = "idle"
    /\ preview' = preview_recreation(backup_data, guild)
    /\ guild' = [guild EXCEPT
                     !.channels =
                         SelectSeq(@, LAMBDA channel :
                             Lower(channel.name) \in
                                 backup_channel_names(backup_data))]
    /\ pc' = "previewed"
    /\ UNCHANGED <<cancelVars, backup_data, config, role_mapping, channel_mapping,
                   stats, todo, messages_to_restore, webhook, run, next_id,
                   fail_budget, starting, calls, chainVars>>

\* discord_yoink.py 656: the dry run, taken before the run.
Preview ==
    /\ pc = "idle"
    /\ preview' = preview_recreation(backup_data, guild)
    /\ pc' = "previewed"
    /\ UNCHANGED <<cancelVars, backup_data, guild, config, role_mapping, channel_mapping,
                   stats, todo, messages_to_restore, webhook, run, next_id,
                   fail_budget, starting, calls, chainVars>>

\* discord_yoink.py 481, 720: a fresh ServerRecreator, and recreate_server
\* entered: _cleanup_server starts its loop over guild.channels.
StartRun ==
    /\ \/ pc = "previewed"
       \/ pc \in {"done", "raised", "cancelled"} /\ run < MaxRuns
    /\ run' = run + 1
    /\ role_mapping' = <<>>
    /\ channel_mapping' = <<>>
    /\ stats' = FreshStats
    /\ starting' = guild
    /\ pc' = "cleanup_channels"
    /\ todo' = guild.channels
    /\ messages_to_restore' = <<>>
    /\ webhook' = None
    /\ UNCHANGED <<cancelVars, backup_data, guild, config, preview, next_id, fail_budget,
                   calls, chainVars>>

\* 177-193: one pass of the loop over the target's channels.
CleanupChannel ==
    /\ pc = "cleanup_channels"
    /\ todo # <<>>
    /\ todo' = Tail(todo)
    /\ LET channel == Head(todo) IN
       IF Lower(channel.name) \notin backup_channel_names(backup_data)
       THEN \E outcome \in Outcomes :
            /\ Issue("delete_channel", channel.name, channel.id, outcome)
            /\ guild' = IF outcome = "ok" THEN DeleteChannel(guild, channel.id)
                        ELSE guild
            /\ stats' =
                 CASE outcome = "ok" ->
                        [stats EXCEPT !.channels_removed = @ + 1]
                   [] outcome = "Forbidden" ->
                        WithError(stats, "No permission to delete channel",
                                  channel.name)
                   [] outcome = "HTTPException" ->
                        WithError(stats, "Failed to delete channel", channel.name)
                   [] OTHER -> WithError(stats, "str(e)", channel.name)
            /\ pc' = IF Propagates(outcome) THEN "raised" ELSE pc
       ELSE UNCHANGED <<guild, stats, pc, calls, fail_budget>>
    /\ UNCHANGED <<cancelVars, backup_data, config, role_mapping, channel_mapping,
                   messages_to_restore, webhook, preview, run, next_id,
                   starting, chainVars>>

\* A cleanup that spares no role for being the default one.
IsDefaultRole_Never(role) == FALSE

\* 197: the default role, recognised by its name.
IsDefaultRole(role) == role.name = "@everyone"

\* 196-212: one pass of the loop over the target's roles.
CleanupRole ==
    /\ pc = "cleanup_roles"
    /\ todo # <<>>
    /\ todo' = Tail(todo)
    /\ LET role == Head(todo) IN
       IF /\ ~IsDefaultRole(role)
          /\ Lower(role.name) \notin backup_role_names(backup_data)
       THEN \E outcome \in Outcomes :
            /\ Issue("delete_role", role.name, role.id, outcome)
            /\ guild' = IF outcome = "ok" THEN DeleteRole(guild, role.id)
                        ELSE guild
            /\ stats' =
                 CASE outcome = "ok" ->
                        [stats EXCEPT !.roles_removed = @ + 1]
                   [] outcome = "Forbidden" ->
                        WithError(stats, "No permission to delete role", role.name)
                   [] outcome = "HTTPException" ->
                        WithError(stats, "Failed to delete role", role.name)
                   [] OTHER -> WithError(stats, "str(e)", role.name)
            /\ pc' = IF Propagates(outcome) THEN "raised" ELSE pc
       ELSE UNCHANGED <<guild, stats, pc, calls, fail_budget>>
    /\ UNCHANGED <<cancelVars, backup_data, config, role_mapping, channel_mapping,
                   messages_to_restore, webhook, preview, run, next_id,
                   starting, chainVars>>

\* The platform's side of guild.create_role().
CreateRole(g, id, name) ==
    [g EXCEPT !.roles = Append(@, [id |-> id, name |-> name])]

\* The platform's side of guild.create_category(), create_text_channel(),
\* create_voice_channel() and create_forum().
CreateChannel(g, id, name, type, category_id) ==
    [g EXCEPT !.channels =
        Append(@, [id |-> id, name |-> name, type |-> type,
                   category_id |-> category_id])]

\* 225-269: one pass of the loop over sorted_roles.
RecreateRole ==
    /\ pc = "roles"
    /\ todo # <<>>
    /\ todo' = Tail(todo)
    /\ LET role_data == Head(todo)
           existing_role == utils_get(guild.roles, role_data.name)
       IN  IF existing_role.id # None
           THEN /\ role_mapping' = DictSet(role_mapping, role_data.id,
                                           existing_role.id)
                /\ UNCHANGED <<guild, stats, next_id, calls, fail_budget>>
           ELSE \E outcome \in Outcomes :
                /\ Issue("create_role", role_data.name, next_id, outcome)
                /\ IF outcome = "ok"
                   THEN /\ guild' = CreateRole(guild, next_id, role_data.name)
                        /\ next_id' = next_id + 1
                        /\ role_mapping' = DictSet(role_mapping, role_data.id,
                                                   next_id)
                        /\ stats' = [stats EXCEPT !.roles_created = @ + 1]
                   ELSE /\ stats' =
                             CASE outcome = "Forbidden" ->
                                    WithError(stats, "No permission to create role",
                                              role_data.name)
                               [] outcome = "HTTPException" ->
                                    WithError(stats, "Failed to create role",
                                              role_data.name)
                               [] OTHER ->
                                    WithError(stats, "Unexpected error creating role",
                                              role_data.name)
                        /\ UNCHANGED <<guild, next_id, role_mapping>>
    /\ UNCHANGED <<cancelVars, backup_data, config, channel_mapping, pc,
                   messages_to_restore, webhook, preview, run, starting,
                   chainVars>>

\* 288-314: one pass of the loop over the snapshot's categories.
RecreateCategory ==
    /\ pc = "categories"
    /\ todo # <<>>
    /\ todo' = Tail(todo)
    /\ LET category_data == Head(todo)
           existing_category == utils_get(guild_categories(guild),
                                          category_data.name)
       IN  IF existing_category.id # None
           THEN /\ channel_mapping' = DictSet(channel_mapping, category_data.id,
                                              existing_category.id)
                /\ UNCHANGED <<guild, stats, next_id, calls, fail_budget>>
           ELSE \E outcome \in Outcomes :
                /\ Issue("create_category", category_data.name, next_id, outcome)
                /\ IF outcome = "ok"
                   THEN /\ guild' = CreateChannel(guild, next_id,
                                                  category_data.name, "category",
                                                  None)
                        /\ next_id' = next_id + 1
                        /\ channel_mapping' = DictSet(channel_mapping,
                                                      category_data.id, next_id)
                        /\ stats' = [stats EXCEPT !.channels_created = @ + 1]
                   ELSE /\ stats' = WithError(stats, "Failed to create category",
                                              category_data.name)
                        /\ UNCHANGED <<guild, next_id, channel_mapping>>
    /\ UNCHANGED <<cancelVars, backup_data, config, role_mapping, pc, messages_to_restore,
                   webhook, preview, run, starting, chainVars>>

\* 320-322: the lookup that decides whether a regular channel exists.
existing_channel_InCategories(g, name) == utils_get(guild_categories(g), name)

existing_channel(g, name) == utils_get(g.channels, name)

\* Every regular channel created at the top level.
CategoryFor_TopLevel(channel_data) == None

\* 327-336: the category a regular channel is created under.
CategoryFor(channel_data) ==
    IF /\ channel_data.category_id # None
       /\ channel_data.category_id \in DOMAIN channel_mapping
    THEN LET category_channel ==
                 get_channel(guild, channel_mapping[channel_data.category_id])
         IN  IF /\ category_channel.id # None
                /\ category_channel.type = "category"
             THEN category_channel.id
             ELSE None
    ELSE None

\* A text channel created for every type the code has no branch for.
CreatedTypes_TextForOthers(channel_type) ==
    CASE channel_type = "voice" -> {"voice"}
      [] channel_type = "forum" -> {"forum", "text"}
      [] OTHER -> {"text"}

\* 339-390: the channel types the code creates.  create_forum is absent
\* from older libraries, and a text channel is created in its place.
CreatedTypes(channel_type) ==
    CASE channel_type = "text" -> {"text"}
      [] channel_type = "voice" -> {"voice"}
      [] channel_type = "forum" -> {"forum", "text"}
      [] OTHER -> {}

\* 317-402: one pass of the loop over the snapshot's regular channels.
RecreateChannel ==
    /\ pc = "channels"
    /\ todo # <<>>
    /\ todo' = Tail(todo)
    /\ LET channel_data == Head(todo)
           found == existing_channel(guild, channel_data.name)
       IN  IF found.id # None
           THEN /\ channel_mapping' = DictSet(channel_mapping, channel_data.id,
                                              found.id)
                /\ UNCHANGED <<guild, stats, next_id, calls, fail_budget>>
           ELSE IF CreatedTypes(channel_data.type) = {}
           THEN UNCHANGED <<guild, stats, next_id, calls, fail_budget,
                            channel_mapping>>
           ELSE \E outcome \in Outcomes :
                \E type \in CreatedTypes(channel_data.type) :
                /\ Issue("create_channel", channel_data.name, next_id, outcome)
                /\ IF outcome = "ok"
                   THEN /\ guild' = CreateChannel(guild, next_id,
                                                  channel_data.name, type,
                                                  CategoryFor(channel_data))
                        /\ next_id' = next_id + 1
                        /\ channel_mapping' = DictSet(channel_mapping,
                                                      channel_data.id, next_id)
                        /\ stats' = [stats EXCEPT !.channels_created = @ + 1]
                   ELSE /\ stats' = WithError(stats, "Failed to create channel",
                                              channel_data.name)
                        /\ UNCHANGED <<guild, next_id, channel_mapping>>
    /\ UNCHANGED <<cancelVars, backup_data, config, role_mapping, pc, messages_to_restore,
                   webhook, preview, run, starting, chainVars>>

\* 404-448: _apply_server_settings.  The snapshots modelled carry a name
\* and no icon, banner or description, so guild.edit(name=...) is the one
\* call it can make.
ApplyServerSettings ==
    /\ pc = "settings"
    /\ pc' = IF config.skip_media THEN "messages" ELSE "emojis"
    /\ todo' = IF config.skip_media THEN backup_data.channels
               ELSE backup_data.emojis
    /\ LET server_info == backup_data.server_info IN
       IF server_info.name # "" /\ server_info.name # guild.name
       THEN \E outcome \in Outcomes :
            /\ Issue("edit", server_info.name, None, outcome)
            /\ guild' = IF outcome = "ok"
                        THEN [guild EXCEPT !.name = server_info.name]
                        ELSE guild
            /\ stats' =
                 CASE outcome = "ok" -> [stats EXCEPT !.server_renamed = TRUE]
                   [] outcome = "Forbidden" -> stats
                   [] OTHER -> WithError(stats, "Failed to apply server settings",
                                         server_info.name)
       ELSE UNCHANGED <<guild, stats, calls, fail_budget>>
    /\ UNCHANGED <<cancelVars, backup_data, config, role_mapping, channel_mapping,
                   messages_to_restore, webhook, preview, run, next_id,
                   starting, chainVars>>

\* 467 and 520-523: the test of the asset count against the guild's limit.
LimitReached_Exceeded(count, limit) == count > limit

LimitReached(count, limit) == count >= limit

\* The platform's side of guild.create_custom_emoji().
CreateEmoji(g, id, name) ==
    [g EXCEPT !.emojis = Append(@, [id |-> id, name |-> name])]

\* The platform's side of guild.create_sticker().
CreateSticker(g, id, name) ==
    [g EXCEPT !.stickers = Append(@, [id |-> id, name |-> name])]

\* 456-501: one pass of the loop over the snapshot's emojis.  break leaves
\* nothing to visit.  A failed creation is logged and nothing else.
RecreateEmoji ==
    /\ pc = "emojis"
    /\ todo # <<>>
    /\ LET emoji_data == Head(todo)
           existing_emoji == utils_get(guild.emojis, emoji_data.name)
       IN  IF existing_emoji.id # None
           THEN /\ todo' = Tail(todo)
                /\ UNCHANGED <<guild, next_id, calls, fail_budget>>
           ELSE IF /\ ~config.ignore_emoji_limit
                   /\ LimitReached(Len(guild.emojis), guild.emoji_limit)
           THEN /\ todo' = <<>>
                /\ UNCHANGED <<guild, next_id, calls, fail_budget>>
           ELSE IF ~emoji_data.has_file
           THEN /\ todo' = Tail(todo)
                /\ UNCHANGED <<guild, next_id, calls, fail_budget>>
           ELSE \E outcome \in Outcomes :
                /\ todo' = Tail(todo)
                /\ Issue("create_custom_emoji", emoji_data.name, next_id, outcome)
                /\ guild' = IF outcome = "ok"
                            THEN CreateEmoji(guild, next_id, emoji_data.name)
                            ELSE guild
                /\ next_id' = IF outcome = "ok" THEN next_id + 1 ELSE next_id
    /\ UNCHANGED <<cancelVars, backup_data, config, role_mapping, channel_mapping, stats,
                   pc, messages_to_restore, webhook, preview, run, starting,
                   chainVars>>

\* 509-561: one pass of the loop over the snapshot's stickers.
RecreateSticker ==
    /\ pc = "stickers"
    /\ todo # <<>>
    /\ LET sticker_data == Head(todo)
           existing_sticker == utils_get(guild.stickers, sticker_data.name)
       IN  IF existing_sticker.id # None
           THEN /\ todo' = Tail(todo)
                /\ UNCHANGED <<guild, next_id, calls, fail_budget>>
           ELSE IF /\ ~config.ignore_sticker_limit
                   /\ LimitReached(Len(guild.stickers), guild.sticker_limit)
           THEN /\ todo' = <<>>
                /\ UNCHANGED <<guild, next_id, calls, fail_budget>>
           ELSE IF ~sticker_data.has_file
           THEN /\ todo' = Tail(todo)
                /\ UNCHANGED <<guild, next_id, calls, fail_budget>>
           ELSE \E outcome \in Outcomes :
                /\ todo' = Tail(todo)
                /\ Issue("create_sticker", sticker_data.name, next_id, outcome)
                /\ guild' = IF outcome = "ok"
                            THEN CreateSticker(guild, next_id, sticker_data.name)
                            ELSE guild
                /\ next_id' = IF outcome = "ok" THEN next_id + 1 ELSE next_id
    /\ UNCHANGED <<cancelVars, backup_data, config, role_mapping, channel_mapping, stats,
                   pc, messages_to_restore, webhook, preview, run, starting,
                   chainVars>>

\* 610-623: messages[-max_messages:] when the list is longer than the cap,
\* the list itself otherwise; 0 is the unlimited mode.
MessagesToRestore(messages, max_messages) ==
    IF max_messages = 0 THEN messages
    ELSE IF Len(messages) > max_messages
    THEN SubSeq(messages, Len(messages) - max_messages + 1, Len(messages))
    ELSE messages

\* 589-602: the target channel messages go to, or NoEntity.
RestoreTarget(channel_data) ==
    IF channel_data.id \notin DOMAIN channel_mapping THEN NoEntity
    ELSE LET channel == get_channel(guild, channel_mapping[channel_data.id])
         IN  IF channel.id = None \/ channel.type \notin {"text", "news"}
             THEN NoEntity
             ELSE channel

\* 588-640: the head of one pass of the loop over the snapshot's channels,
\* up to the creation of the webhook.
RestoreChannel ==
    /\ pc = "messages"
    /\ todo # <<>>
    /\ LET channel_data == Head(todo)
           channel == RestoreTarget(channel_data)
       IN  IF channel.id = None \/ channel_data.messages = <<>>
           THEN /\ todo' = Tail(todo)
                /\ UNCHANGED <<pc, messages_to_restore, webhook, stats, next_id,
                               calls, fail_budget>>
           ELSE /\ todo' = todo
                /\ messages_to_restore' =
                     MessagesToRestore(channel_data.messages,
                                       config.restore_max_messages)
                /\ IF channel.type = "text"
                   THEN \E outcome \in Outcomes :
                        /\ Issue("create_webhook", channel.name, channel.id,
                                 outcome)
                        /\ webhook' = IF outcome = "ok" THEN next_id ELSE None
                        /\ next_id' = IF outcome = "ok" THEN next_id + 1
                                      ELSE next_id
                        /\ pc' = IF Propagates(outcome) THEN "raised"
                                 ELSE "sending"
                        /\ stats' = IF Propagates(outcome)
                                    THEN WithError(stats, "str(e)", channel.name)
                                    ELSE stats
                   ELSE /\ webhook' = None
                        /\ pc' = "sending"
                        /\ UNCHANGED <<stats, next_id, calls, fail_budget>>
    /\ UNCHANGED <<cancelVars, backup_data, guild, config, role_mapping, channel_mapping,
                   preview, run, starting, chainVars>>

\* 708-710: a message with no content, attachment or embed is not sent.
IsEmptyMessage(message) == message.empty

\* RestoreMessage leaving out a message the target channel already received.
RestoreMessage_SkipSent ==
    /\ pc = "sending"
    /\ messages_to_restore # <<>>
    /\ messages_to_restore' = Tail(messages_to_restore)
    /\ LET message == Head(messages_to_restore)
           channel == RestoreTarget(Head(todo))
       IN  IF \/ IsEmptyMessage(message)
              \/ \E k \in DOMAIN calls :
                    /\ calls[k].op \in {"webhook.send", "channel.send"}
                    /\ calls[k].outcome = "ok"
                    /\ calls[k].name = message.id
                    /\ calls[k].id = channel.id
           THEN /\ stats' = [stats EXCEPT !.messages_restored = @ + 1]
                /\ UNCHANGED <<calls, fail_budget>>
           ELSE \E outcome \in Outcomes :
                /\ Issue(IF webhook # None THEN "webhook.send" ELSE "channel.send",
                         message.id, channel.id, outcome)
                /\ stats' = IF outcome = "ok"
                            THEN [stats EXCEPT !.messages_restored = @ + 1]
                            ELSE stats
    /\ UNCHANGED <<cancelVars, backup_data, guild, config, role_mapping, channel_mapping,
                   pc, todo, webhook, preview, run, next_id, starting,
                   chainVars>>

\* 641-659 with 673-773: one pass of the loop over messages_to_restore.
\* The counter moves whenever _restore_single_message returns.
RestoreMessage ==
    /\ pc = "sending"
    /\ messages_to_restore # <<>>
    /\ messages_to_restore' = Tail(messages_to_restore)
    /\ LET message == Head(messages_to_restore)
           channel == RestoreTarget(Head(todo))
       IN  IF IsEmptyMessage(message)
           THEN /\ stats' = [stats EXCEPT !.messages_restored = @ + 1]
                /\ UNCHANGED <<calls, fail_budget>>
           ELSE \E outcome \in Outcomes :
                /\ Issue(IF webhook # None THEN "webhook.send" ELSE "channel.send",
                         message.id, channel.id, outcome)
                /\ stats' = IF outcome = "ok"
                            THEN [stats EXCEPT !.messages_restored = @ + 1]
                            ELSE stats
    /\ UNCHANGED <<cancelVars, backup_data, guild, config, role_mapping, channel_mapping,
                   pc, todo, webhook, preview, run, next_id, starting,
                   chainVars>>

\* The end of a pass that leaves the webhook where it is.
FinishChannel_NoTeardown ==
    /\ pc = "sending"
    /\ messages_to_restore = <<>>
    /\ pc' = "messages"
    /\ todo' = Tail(todo)
    /\ webhook' = None
    /\ UNCHANGED <<cancelVars, backup_data, guild, config, role_mapping,
                   channel_mapping, stats, messages_to_restore, preview, run,
                   next_id, starting, calls, fail_budget, chainVars>>

\* 661-671: the end of the pass: the webhook is deleted.
FinishChannel ==
    /\ pc = "sending"
    /\ messages_to_restore = <<>>
    /\ pc' = "messages"
    /\ todo' = Tail(todo)
    /\ webhook' = None
    /\ IF webhook # None
       THEN \E outcome \in Outcomes :
            Issue("webhook.delete", Head(todo).name, webhook, outcome)
       ELSE UNCHANGED <<calls, fail_budget>>
    /\ UNCHANGED <<cancelVars, backup_data, guild, config, role_mapping, channel_mapping,
                   stats, messages_to_restore, preview, run, next_id, starting,
                   chainVars>>

\* The steps of recreate_server in another order: the roles after the
\* channels.
LoopAfter_RolesAfterChannels(phase) ==
    CASE phase = "cleanup_channels" ->
            [pc |-> "cleanup_roles", todo |-> guild.roles]
      [] phase = "cleanup_roles" ->
            [pc |-> "categories", todo |-> Categories(backup_data.channels)]
      [] phase = "categories" ->
            [pc |-> "channels", todo |-> RegularChannels(backup_data.channels)]
      [] phase = "channels" ->
            [pc |-> "roles", todo |-> SortByPosition(backup_data.roles)]
      [] phase = "roles" -> [pc |-> "settings", todo |-> <<>>]
      [] phase = "emojis" -> [pc |-> "stickers", todo |-> backup_data.stickers]
      [] phase = "stickers" -> [pc |-> "messages", todo |-> backup_data.channels]
      [] phase = "messages" -> [pc |-> "done", todo |-> <<>>]

\* 41-75: one loop of recreate_server is over and the next begins, or the
\* stats are returned.
LoopAfter(phase) ==
    CASE phase = "cleanup_channels" ->
            [pc |-> "cleanup_roles", todo |-> guild.roles]
      [] phase = "cleanup_roles" ->
            [pc |-> "roles", todo |-> SortByPosition(backup_data.roles)]
      [] phase = "roles" ->
            [pc |-> "categories", todo |-> Categories(backup_data.channels)]
      [] phase = "categories" ->
            [pc |-> "channels", todo |-> RegularChannels(backup_data.channels)]
      [] phase = "channels" -> [pc |-> "settings", todo |-> <<>>]
      [] phase = "emojis" -> [pc |-> "stickers", todo |-> backup_data.stickers]
      [] phase = "stickers" -> [pc |-> "messages", todo |-> backup_data.channels]
      [] phase = "messages" -> [pc |-> "done", todo |-> <<>>]

Loops ==
    {"cleanup_channels", "cleanup_roles", "roles", "categories", "channels",
     "emojis", "stickers", "messages"}

NextLoop ==
    /\ pc \in Loops
    /\ todo = <<>>
    /\ pc' = LoopAfter(pc).pc
    /\ todo' = LoopAfter(pc).todo
    /\ UNCHANGED <<cancelVars, backup_data, guild, config, role_mapping, channel_mapping,
                   stats, messages_to_restore, webhook, preview, run, next_id,
                   fail_budget, starting, calls, chainVars>>

\* The positions of recreate_server at which it awaits.
Awaiting ==
    {"cleanup_channels", "cleanup_roles", "roles", "categories", "channels",
     "settings", "emojis", "stickers", "messages", "sending"}

\* The task running recreate_server is cancelled while it waits between two
\* platform calls. asyncio.CancelledError is no Exception: neither the
\* handlers of the loops nor the except of 77-80 catch it, nothing is added
\* to stats["errors"], and the engine and its locals are dropped.
Cancel ==
    /\ pc \in Awaiting
    /\ cancel_budget > 0
    /\ cancel_budget' = cancel_budget - 1
    /\ cancelled' = cancelled \cup {run}
    /\ pc' = "cancelled"
    /\ todo' = <<>>
    /\ messages_to_restore' = <<>>
    /\ webhook' = None
    /\ UNCHANGED <<original, backup_data, guild, config, role_mapping,
                   channel_mapping, stats, preview, run, next_id, fail_budget,
                   starting, calls, chainVars>>

Next ==
    \/ Preview
    \/ StartRun
    \/ CleanupChannel
    \/ CleanupRole
    \/ RecreateRole
    \/ RecreateCategory
    \/ RecreateChannel
    \/ ApplyServerSettings
    \/ RecreateEmoji
    \/ RecreateSticker
    \/ RestoreChannel
    \/ RestoreMessage
    \/ FinishChannel
    \/ NextLoop
    \/ Cancel

(***************************************************************************)
(* The snapshots, targets and configurations the recreator is run on.      *)
(***************************************************************************)
\* The subsequence of seq at the indices in S.
Pick(seq, S) ==
    LET F[k \in 0..Len(seq)] ==
            IF k = 0 THEN <<>>
            ELSE IF k \in S THEN Append(F[k - 1], seq[k]) ELSE F[k - 1]
    IN  F[Len(seq)]

SubSeqsOf(seq, max) ==
    {Pick(seq, S) : S \in {T \in SUBSET DOMAIN seq : Cardinality(T) <= max}}

SeqsUpTo(S, max) == UNION {[1..n -> S] : n \in 0..max}

\* backup_manager.py 303-357: a channel of the snapshot.  Every channel
\* that is not a category lies under the snapshot's first category.
SnapshotChannels(kinds, messages) ==
    LET cats == {k \in DOMAIN kinds : kinds[k].type = "category"}
        first == IF cats = {} THEN None
                 ELSE CHOOSE k \in cats : \A j \in cats : k <= j
    IN  [k \in DOMAIN kinds |->
            [id |-> k, name |-> kinds[k].name, type |-> kinds[k].type,
             category_id |-> IF kinds[k].type = "category" THEN None ELSE first,
             position |-> IF "position" \in DOMAIN kinds[k]
                          THEN kinds[k].position ELSE k,
             messages |-> IF kinds[k].type = "text" THEN messages ELSE <<>>]]

\* backup_manager.py 172-189: the roles of the snapshot, @everyone left out.
SnapshotRoles(kinds) ==
    [k \in DOMAIN kinds |->
        [id |-> k, name |-> kinds[k].name, position |-> kinds[k].position]]

\* backup_manager.py 191-263: an emoji or sticker, and whether its file
\* was downloaded and is still there.
SnapshotAssets(kinds) ==
    [k \in DOMAIN kinds |->
        [id |-> k, name |-> kinds[k].name, has_file |-> kinds[k].has_file]]

\* backup_manager.py 53-141: the snapshot.
BackupData(channels, roles, emojis, stickers) ==
    [server_info |-> [name |-> "srv"], channels |-> channels, roles |-> roles,
     emojis |-> emojis, stickers |-> stickers]

\* The target guild: @everyone has id 1.
TargetGuild(name, role_names, channel_kinds, emoji_names, sticker_names) ==
    [name |-> name,
     roles |-> <<[id |-> 1, name |-> "@everyone"]>> \o
               [k \in DOMAIN role_names |-> [id |-> 1 + k, name |-> role_names[k]]],
     channels |-> [k \in DOMAIN channel_kinds |->
                      [id |-> 10 + k, name |-> channel_kinds[k].name,
                       type |-> channel_kinds[k].type, category_id |-> None]],
     emojis |-> [k \in DOMAIN emoji_names |-> [id |-> 20 + k, name |-> emoji_names[k]]],
     stickers |-> [k \in DOMAIN sticker_names |->
                      [id |-> 30 + k, name |-> sticker_names[k]]],
     emoji_limit |-> AssetLimit,
     sticker_limit |-> AssetLimit]

FirstNewId == 40

\* discord_yoink.py 440-470 and 720-722: the settings the
\* recreator reads, and the skip_media argument of recreate_server.
Settings(max_messages, ignore_emoji_limit, ignore_sticker_limit, skip_media) ==
    [restore_max_messages |-> max_messages,
     ignore_emoji_limit |-> ignore_emoji_limit,
     ignore_sticker_limit |-> ignore_sticker_limit,
     skip_media |-> skip_media]

\* An archived message: backup_manager.py 359-489.
ArchivedMessage(i, empty) == [id |-> i, timestamp |-> i, empty |-> empty]

\* The archived list of a channel with messages 1..n: newest first as the
\* capture stores it, oldest first as merge_chain leaves it.
ArchivedMessages(n, empties, oldest_first) ==
    [k \in 1..n |->
        LET i == IF oldest_first THEN k ELSE n + 1 - k
        IN  ArchivedMessage(i, i \in empties)]

SnapChannelKinds ==
    [name : {"general", "rules"},
     type : {"category", "text", "voice", "stage_voice"}]

TargetChannelKinds ==
    <<[name |-> "general", type |-> "text"],
      [name |-> "General", type |-> "voice"],
      [name |-> "old", type |-> "text"],
      [name |-> "general", type |-> "category"]>>

SnapRoleKinds == [name : {"mods", "admin"}, position : 1..MaxSnapRoles]

TargetRoleNames == <<"mods", "Mods", "old">>

AssetKinds == [name : {"a", "b"}, has_file : BOOLEAN]

TargetAssetNames == <<"a", "x">>

OneTextChannel == <<[name |-> "general", type |-> "text"]>>

OneRole == SnapshotRoles(<<[name |-> "mods", position |-> 1]>>)

\* The preview before preview_recreation has returned one.
NoPreview == [server_info |-> None]

\* The state before the tool is started on a snapshot and a target.
RecreatorInit(data, target, settings, budget, cancels) ==
    /\ cancel_budget = cancels
    /\ cancelled = {}
    /\ original = target
    /\ backup_data = data
    /\ guild = target
    /\ config = settings
    /\ fail_budget = budget
    /\ role_mapping = <<>>
    /\ channel_mapping = <<>>
    /\ stats = FreshStats
    /\ pc = "idle"
    /\ todo = <<>>
    /\ messages_to_restore = <<>>
    /\ webhook = None
    /\ preview = NoPreview
    /\ run = 0
    /\ next_id = FirstNewId
    /\ starting = target
    /\ calls = <<>>

\* Channels vary; one role to create, no assets, no messages.
InitChannels ==
    \E kinds \in SeqsUpTo(SnapChannelKinds, MaxSnapChannels) :
    \E onTarget \in SubSeqsOf(TargetChannelKinds, MaxTargetChannels) :
        RecreatorInit(
            BackupData(SnapshotChannels(kinds, <<>>), OneRole, <<>>, <<>>),
            TargetGuild("srv", <<>>, onTarget, <<>>, <<>>),
            Settings(MaxCap, FALSE, FALSE, FALSE), 0, 0)

\* Roles and the guild's name vary.
InitRoles ==
    \E kinds \in SeqsUpTo(SnapRoleKinds, MaxSnapRoles) :
    \E onTarget \in SubSeqsOf(TargetRoleNames, MaxTargetRoles) :
    \E name \in {"srv", "new"} :
        RecreatorInit(
            BackupData(SnapshotChannels(OneTextChannel, <<>>),
                       SnapshotRoles(kinds), <<>>, <<>>),
            TargetGuild(name, onTarget, <<>>, <<>>, <<>>),
            Settings(MaxCap, FALSE, FALSE, FALSE), 0, 0)

\* Emojis and their limit policy vary, or stickers and theirs.
InitAssets ==
    \E kinds \in SeqsUpTo(AssetKinds, MaxAssets) :
    \E onTarget \in SubSeqsOf(TargetAssetNames, MaxAssets) :
    \E ignore_limit, stickers \in BOOLEAN :
        RecreatorInit(
            BackupData(SnapshotChannels(OneTextChannel, <<>>), OneRole,
                       IF stickers THEN <<>> ELSE SnapshotAssets(kinds),
                       IF stickers THEN SnapshotAssets(kinds) ELSE <<>>),
            TargetGuild("srv", <<>>, <<>>,
                        IF stickers THEN <<>> ELSE onTarget,
                        IF stickers THEN onTarget ELSE <<>>),
            Settings(MaxCap, ignore_limit, ignore_limit, FALSE), 0, 0)

\* The archived messages of one text channel and the cap vary; the target
\* has no channel, or a text channel or a category of the channel's name.
InitMessages ==
    \E n \in 0..MaxMessages :
    \E empties \in SUBSET (1..n) :
    \E oldest_first \in BOOLEAN :
    \E max_messages \in 0..MaxCap :
    \E onTarget \in SubSeqsOf(<<TargetChannelKinds[1], TargetChannelKinds[4]>>, 1) :
        RecreatorInit(
            BackupData(SnapshotChannels(OneTextChannel,
                                        ArchivedMessages(n, empties, oldest_first)),
                       OneRole, <<>>, <<>>),
            TargetGuild("srv", <<>>, onTarget, <<>>, <<>>),
            Settings(max_messages, FALSE, FALSE, FALSE), 0, 0)

\* One snapshot and target on which platform calls may fail, with and
\* without skip_media.
InitFaults ==
    \E skip_media \in BOOLEAN :
        RecreatorInit(
            BackupData(SnapshotChannels(<<[name |-> "rules", type |-> "category"],
                                          [name |-> "general", type |-> "text"],
                                          [name |-> "ideas", type |-> "forum"]>>,
                                        ArchivedMessages(2, {}, FALSE)),
                       OneRole,
                       SnapshotAssets(<<[name |-> "a", has_file |-> TRUE]>>),
                       SnapshotAssets(<<[name |-> "b", has_file |-> TRUE]>>)),
            TargetGuild("new", <<"old">>, <<TargetChannelKinds[3]>>, <<>>, <<>>),
            Settings(MaxCap, FALSE, FALSE, skip_media), MaxFailures, 0)

\* Channels of a snapshot vary, among them one of a type that is not
\* created; the target holds a channel and a role to keep and a channel and
\* a role to remove, and a run may be cancelled.
CancelChannelKinds ==
    {[name |-> "general", type |-> "category"],
     [name |-> "general", type |-> "text"],
     [name |-> "rules", type |-> "text"],
     [name |-> "rules", type |-> "forum"]}

InitCancel ==
    \E kinds \in SeqsUpTo(CancelChannelKinds, MaxSnapChannels) :
        RecreatorInit(
            BackupData(SnapshotChannels(kinds, <<>>),
                       SnapshotRoles(<<[name |-> "mods", position |-> 1],
                                       [name |-> "admin", position |-> 2]>>),
                       <<>>, <<>>),
            TargetGuild("srv", <<"Mods", "old">>,
                        <<TargetChannelKinds[2], TargetChannelKinds[3]>>,
                        <<>>, <<>>),
            Settings(MaxCap, FALSE, FALSE, FALSE), 0, MaxCancels)

\* Categories whose recorded positions are in any order with respect to the
\* order of the snapshot's dict (the capture pass stores the channels in the
\* order of guild.channels, backup_manager.py 316-347, and a position is
\* what the guild's users arranged); the target has no channel, or the
\* category "general".
CategoryKinds ==
    [name : {"general", "rules"}, type : {"category"},
     position : 1..MaxSnapChannels]

InitCategories ==
    \E kinds \in SeqsUpTo(CategoryKinds, MaxSnapChannels) :
    \E onTarget \in SubSeqsOf(<<TargetChannelKinds[4]>>, 1) :
        RecreatorInit(
            BackupData(SnapshotChannels(kinds, <<>>), OneRole, <<>>, <<>>),
            TargetGuild("srv", <<>>, onTarget, <<>>, <<>>),
            Settings(MaxCap, FALSE, FALSE, FALSE), 0, 0)

\* Two text channels with two archived messages each, replayed on an empty
\* target; calls may fail.
InitReplay ==
    RecreatorInit(
        BackupData(SnapshotChannels(<<[name |-> "general", type |-> "text"],
                                      [name |-> "rules", type |-> "text"]>>,
                                    ArchivedMessages(2, {}, FALSE)),
                   OneRole, <<>>, <<>>),
        TargetGuild("srv", <<>>, <<>>, <<>>, <<>>),
        Settings(MaxCap, FALSE, FALSE, FALSE), MaxFailures, 0)

\* One role and one channel to create on an empty target; calls may fail and
\* a run may be cancelled.
InitCancelFaults ==
    RecreatorInit(
        BackupData(SnapshotChannels(OneTextChannel, <<>>), OneRole, <<>>, <<>>),
        TargetGuild("srv", <<>>, <<>>, <<>>, <<>>),
        Settings(MaxCap, FALSE, FALSE, FALSE), MaxFailures, MaxCancels)

Init ==
    /\ \/ InitChannels
       \/ InitRoles
       \/ InitAssets
       \/ InitMessages
       \/ InitFaults
       \/ InitCancel
       \/ InitCancelFaults
       \/ InitCategories
       \/ InitReplay
    /\ files = <<>>
    /\ chain = <<>>
    /\ merged = [status |-> "none"]
    /\ backup_files = <<>>
    /\ chains = <<>>
    /\ scanned = FALSE

Spec == Init /\ [][Next]_vars

(***************************************************************************)
(* Properties of the recreator.                                            *)
(***************************************************************************)
\* No platform call of the history has failed.
NoTransportFailures == \A k \in DOMAIN calls : calls[k].outcome = "ok"

\* The platform calls of run r whose operation is in ops.
CallsOf(r, ops) ==
    {calls[k] : k \in {j \in DOMAIN calls : calls[j].run = r /\ calls[j].op \in ops}}

\* The names run r issued an operation of ops for.
NamesCalled(r, ops) == {call.name : call \in CallsOf(r, ops)}

StructureCalls ==
    {"create_role", "delete_role", "create_category", "create_channel",
     "delete_channel"}

\* C6: after a run that completed with no failed call, a second run with a
\* fresh recreator and the same snapshot issues no create and no delete call
\* for a role or a channel, and its four counters of created and removed
\* channels and roles stay 0.
C6_SecondRunIdle ==
    (run = 2 /\ NoTransportFailures /\ cancelled = {}) =>
        /\ CallsOf(2, StructureCalls) = {}
        /\ stats.channels_created = 0
        /\ stats.channels_removed = 0
        /\ stats.roles_created = 0
        /\ stats.roles_removed = 0

\* A second run has completed after a first run that deleted a channel,
\* created a channel and created a role.
C6_Witness ==
    /\ run = 2
    /\ pc = "done"
    /\ NoTransportFailures
    /\ CallsOf(1, {"delete_channel"}) # {}
    /\ CallsOf(1, {"create_channel"}) # {}
    /\ CallsOf(1, {"create_category"}) # {}
    /\ CallsOf(1, {"create_role"}) # {}

\* C7 as the spec states it: the four lists of the preview, as sets, are the
\* names the run from the same target deleted and created.
C7_AsClaimed ==
    (run = 1 /\ pc = "done" /\ NoTransportFailures) =>
        /\ Range(preview.channels_to_remove) = NamesCalled(1, {"delete_channel"})
        /\ Range(preview.roles_to_remove) = NamesCalled(1, {"delete_role"})
        /\ Range(preview.channels_to_create) =
               NamesCalled(1, {"create_category", "create_channel"})
        /\ Range(preview.roles_to_create) = NamesCalled(1, {"create_role"})

\* The spec's comparison of names: case-insensitive.
SameName(a, b) == Lower(a) = Lower(b)

SupportedTypes == {"category", "text", "voice", "forum"}

\* C8 as the spec states it, once the Cleanup and Channels phases of the
\* first run are over with no failed call: a target channel is deleted iff
\* no snapshot channel has its name; a snapshot channel of a supported type
\* whose name is not on the target is created, once; a snapshot channel
\* whose name is on the target is mapped to a channel the target had, and
\* nothing of its name is created.
C8_AsClaimed ==
    (/\ run = 1
     /\ pc \in {"settings", "emojis", "stickers", "messages", "sending", "done"}
     /\ NoTransportFailures) =>
        /\ \A channel \in Range(starting.channels) :
              (channel.id \in {call.id : call \in CallsOf(1, {"delete_channel"})})
              <=> (\A channel_data \in Range(backup_data.channels) :
                      ~SameName(channel.name, channel_data.name))
        /\ \A channel_data \in Range(backup_data.channels) :
              LET onTarget == {channel \in Range(starting.channels) :
                                  SameName(channel.name, channel_data.name)}
                  created == {call \in CallsOf(1, {"create_category",
                                                     "create_channel"}) :
                                  call.name = channel_data.name}
              IN  IF onTarget = {}
                  THEN channel_data.type \in SupportedTypes =>
                          /\ Cardinality(created) = 1
                          /\ channel_data.id \in DOMAIN channel_mapping
                          /\ channel_mapping[channel_data.id] \in
                                 {call.id : call \in created}
                  ELSE /\ created = {}
                       /\ channel_data.id \in DOMAIN channel_mapping
                       /\ channel_mapping[channel_data.id] \in
                              {channel.id : channel \in onTarget}

\* The message ids run r sent to the target channel of that id, in the order
\* of the calls.
SentTo(r, id) ==
    LET sends == SelectSeq(calls, LAMBDA call :
                     /\ call.run = r
                     /\ call.op \in {"webhook.send", "channel.send"}
                     /\ call.id = id
                     /\ call.outcome = "ok")
    IN  [k \in DOMAIN sends |-> sends[k].name]

\* The m messages of the list with the latest timestamps.
Latest(messages, m) ==
    {message \in Range(messages) :
        Cardinality({other \in Range(messages) :
                        other.timestamp > message.timestamp}) < m}

\* The ids of a set of messages in ascending order of timestamp.
IdsAscending(S) ==
    LET sorted == SortByTimestamp(
                      LET F[k \in 0..Cardinality(S)] ==
                              IF k = 0 THEN <<>>
                              ELSE Append(F[k - 1],
                                          CHOOSE message \in S :
                                              message \notin Range(F[k - 1]))
                      IN  F[Cardinality(S)])
    IN  [k \in DOMAIN sorted |-> sorted[k].id]

Min2(a, b) == IF a <= b THEN a ELSE b

\* C9 as the spec states it, for the archived lists that hold no empty
\* message: after a first run with no failed call, a mapped text channel
\* with L archived messages and cap N > 0 has been sent the min(N, L)
\* messages with the latest timestamps, in ascending order of timestamp, and
\* with cap 0 the whole archived list.
C9_AsClaimed ==
    (run = 1 /\ pc = "done" /\ NoTransportFailures) =>
        \A channel_data \in Range(backup_data.channels) :
            LET channel == RestoreTarget(channel_data)
                messages == channel_data.messages
                sent == SentTo(1, channel.id)
            IN  (/\ channel.id # None
                 /\ \A message \in Range(messages) : ~IsEmptyMessage(message)) =>
                    IF config.restore_max_messages > 0
                    THEN sent = IdsAscending(
                                    Latest(messages,
                                           Min2(config.restore_max_messages,
                                                Len(messages))))
                    ELSE sent = [k \in DOMAIN messages |-> messages[k].id]

\* Emojis, or stickers, done with: where recreate_server stands after them.
AfterEmojis == {"stickers", "messages", "sending", "done"}

AfterStickers == {"messages", "sending", "done"}

\* The names of the snapshot's assets that have a file and are not held.
Uploadable(assets, held) ==
    {asset.name : asset \in {a \in Range(assets) :
        a.has_file /\ a.name \notin {h.name : h \in Range(held)}}}

\* C10: when the run starts on a target that holds as many emojis as its
\* limit, the run issues no emoji creation if ignore_emoji_limit is false;
\* if it is true, its emoji loop issues a creation for every name of the
\* snapshot that has a file and is not on the target, and no other, and with
\* no failed call and such a name the target ends above its limit.  The
\* same for stickers, ignore_sticker_limit and the sticker limit.
C10_LimitPolicy ==
    /\ Len(starting.emojis) >= starting.emoji_limit =>
          /\ ~config.ignore_emoji_limit =>
                CallsOf(run, {"create_custom_emoji"}) = {}
          /\ (config.ignore_emoji_limit /\ ~config.skip_media
                /\ pc \in AfterEmojis) =>
                LET wanted == Uploadable(backup_data.emojis, starting.emojis)
                IN  /\ NamesCalled(run, {"create_custom_emoji"}) = wanted
                    /\ (NoTransportFailures /\ wanted # {}) =>
                           Len(guild.emojis) > guild.emoji_limit
    /\ Len(starting.stickers) >= starting.sticker_limit =>
          /\ ~config.ignore_sticker_limit =>
                CallsOf(run, {"create_sticker"}) = {}
          /\ (config.ignore_sticker_limit /\ ~config.skip_media
                /\ pc \in AfterStickers) =>
                LET wanted == Uploadable(backup_data.stickers, starting.stickers)
                IN  /\ NamesCalled(run, {"create_sticker"}) = wanted
                    /\ (NoTransportFailures /\ wanted # {}) =>
                           Len(guild.stickers) > guild.sticker_limit

\* A run under the advisory policy is over that started at the emoji limit
\* and created emojis past it.
C10_Witness ==
    /\ run = 1
    /\ pc = "done"
    /\ config.ignore_emoji_limit
    /\ Len(starting.emojis) >= starting.emoji_limit
    /\ CallsOf(1, {"create_custom_emoji"}) # {}
    /\ Len(guild.emojis) > guild.emoji_limit

\* The phase of the spec that recreate_server is in: 1 Cleanup, 2 Roles,
\* 3 Channels, 4 ServerSettings, 5 Media, 6 Messages, 7 Done; 0 when no run
\* is under way.
PhaseOf(p) ==
    CASE p \in {"cleanup_channels", "cleanup_roles"} -> 1
      [] p = "roles" -> 2
      [] p \in {"categories", "channels"} -> 3
      [] p = "settings" -> 4
      [] p \in {"emojis", "stickers"} -> 5
      [] p \in {"messages", "sending"} -> 6
      [] p = "done" -> 7
      [] OTHER -> 0

\* The phase a platform call belongs to.
PhaseOfCall(op) ==
    CASE op \in {"delete_channel", "delete_role"} -> 1
      [] op = "create_role" -> 2
      [] op \in {"create_category", "create_channel"} -> 3
      [] op = "edit" -> 4
      [] op \in {"create_custom_emoji", "create_sticker"} -> 5
      [] OTHER -> 6

\* C11: a run starts in Cleanup; within a run every step stays in its phase
\* or moves to the next one (from ServerSettings to Messages when skip_media
\* is set), never back; and every platform call is issued in the phase it
\* belongs to, so that no call of an earlier phase follows the start of a
\* later one.
C11_PhaseOrder ==
    [][/\ run' # run => PhaseOf(pc') = 1
       /\ (run' = run /\ PhaseOf(pc) > 0 /\ PhaseOf(pc') > 0) =>
             \/ PhaseOf(pc') = PhaseOf(pc)
             \/ PhaseOf(pc') = PhaseOf(pc) + 1
             \/ config.skip_media /\ PhaseOf(pc) = 4 /\ PhaseOf(pc') = 6
       /\ calls' # calls =>
             /\ Len(calls') = Len(calls) + 1
             /\ PhaseOfCall(calls'[Len(calls')].op) = PhaseOf(pc)]_vars

\* A run is over that issued a call in each of the six phases.
C11_Witness ==
    /\ run = 1
    /\ pc = "done"
    /\ \A phase \in 1..6 :
          \E k \in DOMAIN calls : PhaseOfCall(calls[k].op) = phase

\* The runs in which platform calls fail, with every step that can be
\* taken eventually taken: the event loop runs recreate_server on.
InitFailing ==
    /\ InitFaults \/ InitCancelFaults
    /\ files = <<>>
    /\ chain = <<>>
    /\ merged = [status |-> "none"]
    /\ backup_files = <<>>
    /\ chains = <<>>
    /\ scanned = FALSE

SpecFailing == InitFailing /\ [][Next]_vars /\ WF_vars(Next)

\* The calls that delete, create or send one entity.
EntityCalls ==
    {"delete_channel", "delete_role", "create_role", "create_category",
     "create_channel", "create_custom_emoji", "create_sticker",
     "webhook.send", "channel.send"}

\* A call of the current run for one entity has failed with
\* discord.Forbidden or another discord.HTTPException.
EntityCallFailed ==
    \E k \in DOMAIN calls :
        /\ calls[k].run = run
        /\ calls[k].op \in EntityCalls
        /\ calls[k].outcome \in {"Forbidden", "HTTPException"}

\* A call has failed with an exception that is no discord.HTTPException.
TransportBroken == \E k \in DOMAIN calls : calls[k].outcome = "ConnectionError"

\* C12: once a delete, create or send call of a run has failed with Forbidden
\* or another HTTP error, that run still goes through the rest of its loop
\* and the later steps and returns, unless the transport itself breaks or
\* the run is cancelled from outside.
C12_RunGoesOn ==
    \A r \in 1..MaxRuns :
        []((run = r /\ EntityCallFailed) =>
              <>(\/ run = r /\ pc = "done"
                 \/ TransportBroken
                 \/ r \in cancelled))

\* A run is over in which an entity's call failed with an HTTP error and
\* calls were issued after it.
C12_Witness ==
    /\ pc = "done"
    /\ \E j, k \in DOMAIN calls :
          /\ j < k
          /\ calls[j].run = run
          /\ calls[k].run = run
          /\ calls[j].op \in EntityCalls
          /\ calls[j].outcome \in {"Forbidden", "HTTPException"}

\* The calls whose failure the spec lists as a non-fatal per-entity failure.
RecordedCalls == EntityCalls \cup {"edit", "create_webhook"}

\* C13 as the spec states it: when a run returns, its errors list has an
\* entry for each of its calls that failed (a delete, a creation of a role,
\* channel, emoji, sticker or webhook, the settings update, a send).
C13_AsClaimed ==
    pc = "done" =>
        Cardinality({k \in DOMAIN calls :
                        /\ calls[k].run = run
                        /\ calls[k].op \in RecordedCalls
                        /\ calls[k].outcome # "ok"}) <= Len(stats.errors)


\* C15: preview_recreation issues no create, delete, edit or send call: the
\* step that produces the preview leaves the target (roles, channels, emojis,
\* stickers, name), the id mappings, the counters and the issued calls as they
\* were.
C15_PreviewFrame ==
    [][(pc = "idle" /\ pc' = "previewed") =>
          /\ preview' = preview_recreation(backup_data, guild)
          /\ guild' = guild
          /\ role_mapping' = role_mapping
          /\ channel_mapping' = channel_mapping
          /\ stats' = stats
          /\ calls' = calls
          /\ next_id' = next_id]_vars

\* A preview has been produced that lists channels and roles to remove and
\* to create, and no call has been issued.
C15_Witness ==
    /\ pc = "previewed"
    /\ preview.channels_to_remove # <<>>
    /\ preview.roles_to_remove # <<>>
    /\ preview.channels_to_create # <<>>
    /\ calls = <<>>


\* The names of the roles and of the channels of a guild.
RoleNames(g) == {role.name : role \in Range(g.roles)}

ChannelNames(g) == {channel.name : channel \in Range(g.channels)}

\* What one uninterrupted run with no failed call leaves on a target: the
\* names the cleanup keeps, and the names of the snapshot's roles and of its
\* channels of a type that is created.
UninterruptedRoleNames(target, data) ==
    {name \in RoleNames(target) :
        name = "@everyone" \/ Lower(name) \in backup_role_names(data)}
    \cup {role_data.name : role_data \in Range(data.roles)}

UninterruptedChannelNames(target, data) ==
    {name \in ChannelNames(target) : Lower(name) \in backup_channel_names(data)}
    \cup {channel_data.name :
            channel_data \in {c \in Range(data.channels) :
                                 c.type \in SupportedTypes}}

RoleCreates == {"create_role"}

ChannelCreates == {"create_category", "create_channel"}

\* C16: a run started after a cancelled one issues no create call for a role
\* or a channel of a name the cancelled run created, and a run that ends
\* with no failed call in the history, whether runs before it were cancelled
\* or not, leaves the role names and channel names of one uninterrupted run
\* from the original target.
C16_ResumeAfterCancel ==
    /\ \A j, k \in DOMAIN calls :
          (/\ calls[j].run \in cancelled
           /\ calls[j].run < calls[k].run
           /\ calls[j].outcome = "ok"
           /\ \/ calls[j].op \in RoleCreates /\ calls[k].op \in RoleCreates
              \/ calls[j].op \in ChannelCreates /\ calls[k].op \in ChannelCreates)
          => calls[j].name # calls[k].name
    /\ (pc = "done" /\ NoTransportFailures) =>
          /\ RoleNames(guild) = UninterruptedRoleNames(original, backup_data)
          /\ ChannelNames(guild) =
                 UninterruptedChannelNames(original, backup_data)

\* A run was cancelled after it had created a role and a channel and before
\* it had created all, and the run started after it has created the rest and
\* ended.
C16_Witness ==
    /\ pc = "done"
    /\ run = 2
    /\ cancelled = {1}
    /\ NoTransportFailures
    /\ \E k \in DOMAIN calls : calls[k].run = 1 /\ calls[k].op \in RoleCreates
    /\ \E k \in DOMAIN calls : calls[k].run = 1 /\ calls[k].op \in ChannelCreates
    /\ \E k \in DOMAIN calls : calls[k].run = 2 /\ calls[k].op \in ChannelCreates


\* The ids run r issued a successful operation of ops for.
IdsDone(r, ops) ==
    {calls[k].id : k \in {j \in DOMAIN calls : /\ calls[j].run = r
                                                /\ calls[j].op \in ops
                                                /\ calls[j].outcome = "ok"}}

AfterCleanup ==
    pc \in {"roles", "categories", "channels", "settings", "emojis", "stickers",
            "messages", "sending", "done"}

\* C22: once the Cleanup phase of a run is over with no failed call, a role
\* the target had when the run started has been deleted if and only if it is
\* not @everyone and its name, compared case-insensitively, is the name of no
\* snapshot role; and no run, whatever fails, issues a delete for @everyone.
C22_RolesRemoved ==
    /\ (AfterCleanup /\ NoTransportFailures) =>
          \A role \in Range(starting.roles) :
              /\ (role.id \in IdsDone(run, {"delete_role"}))
                 <=> (/\ role.name # "@everyone"
                      /\ \A role_data \in Range(backup_data.roles) :
                            ~SameName(role.name, role_data.name))
              /\ (role.id \in IdsDone(run, {"delete_role"}))
                 <=> (\A kept \in Range(guild.roles) : kept.id # role.id)
    /\ \A k \in DOMAIN calls :
          calls[k].op = "delete_role" => calls[k].name # "@everyone"
    /\ pc # "none" => \E role \in Range(guild.roles) : role.name = "@everyone"

\* The cleanup of a first run is over on a target that had the roles "Mods"
\* and "old" against a snapshot with a role "mods": "old" was deleted and
\* "Mods" was kept.
C22_Witness ==
    /\ run = 1
    /\ pc = "roles"
    /\ NoTransportFailures
    /\ {role.name : role \in Range(starting.roles)} = {"@everyone", "Mods", "old"}
    /\ "mods" \in {role_data.name : role_data \in Range(backup_data.roles)}
    /\ {role.name : role \in Range(guild.roles)} = {"@everyone", "Mods"}


\* The positions of a sequence of records never decrease.
PositionsAscending(records) ==
    \A m, n \in DOMAIN records : m < n => records[m].position <= records[n].position

\* C23: the Roles phase visits the snapshot's roles, each once, in ascending
\* order of recorded position.  For the role it visits: if the target has a
\* role of that name no call is issued and the snapshot id is mapped to that
\* role's id; otherwise exactly one create_role call is issued, and when it
\* succeeds the target gains one role of that name, whose id the snapshot id
\* is mapped to.
C23_RolesPhase ==
    [][/\ (pc # "roles" /\ pc' = "roles") =>
             /\ PositionsAscending(todo')
             /\ Len(todo') = Len(backup_data.roles)
             /\ Range(todo') = Range(backup_data.roles)
       /\ (pc = "roles" /\ pc' = "roles" /\ todo # <<>>) =>
             LET role_data == Head(todo)
                 existing == {role \in Range(guild.roles) : role.name = role_data.name}
             IN  /\ todo' = Tail(todo)
                 /\ existing # {} =>
                       /\ calls' = calls
                       /\ guild' = guild
                       /\ role_mapping'[role_data.id] \in
                              {role.id : role \in existing}
                 /\ existing = {} =>
                       /\ Len(calls') = Len(calls) + 1
                       /\ calls'[Len(calls')].op = "create_role"
                       /\ calls'[Len(calls')].name = role_data.name
                       /\ calls'[Len(calls')].outcome = "ok" =>
                             /\ Len(guild'.roles) = Len(guild.roles) + 1
                             /\ \E role \in Range(guild'.roles) :
                                   /\ role.name = role_data.name
                                   /\ role.id = role_mapping'[role_data.id]
                                   /\ role.id \notin
                                          {r.id : r \in Range(guild.roles)}]_vars

\* The Roles phase of a first run is over on a snapshot that lists its two
\* roles in descending position: one was mapped to a role the target had,
\* the other to a role the run created.
C23_Witness ==
    /\ run = 1
    /\ pc = "categories"
    /\ Len(backup_data.roles) = 2
    /\ backup_data.roles[1].position > backup_data.roles[2].position
    /\ DOMAIN role_mapping = {1, 2}
    /\ \E a, b \in {1, 2} :
          /\ role_mapping[a] < FirstNewId
          /\ role_mapping[b] >= FirstNewId


\* C24 as the spec states it: the categories loop starts on all the
\* snapshot's categories in ascending order of recorded position, and the
\* loop over the other channels starts only when every category has been
\* visited.
C24_AsClaimed ==
    [][/\ (pc # "categories" /\ pc' = "categories") =>
             /\ Range(todo') = Range(Categories(backup_data.channels))
             /\ PositionsAscending(todo')
       /\ (pc # "channels" /\ pc' = "channels") =>
             /\ pc = "categories"
             /\ todo = <<>>]_vars


Running == pc \in Awaiting \cup {"done"}

\* The channel of the guild with that id.
ChannelOf(g, id) == CHOOSE channel \in Range(g.channels) : channel.id = id

\* The snapshot's regular channels for which the current run created a
\* channel.
CreatedByRun ==
    {channel_data \in Range(RegularChannels(backup_data.channels)) :
        /\ channel_data.id \in DOMAIN channel_mapping
        /\ channel_mapping[channel_data.id] \in IdsDone(run, {"create_channel"})}

\* C25: a channel the run created for a snapshot channel that is no category
\* lies under the target category the recorded parent's id is mapped to; when
\* the recorded parent has no mapping the channel was created all the same,
\* with no parent.
C25_Parent ==
    Running =>
        \A channel_data \in CreatedByRun :
            LET created == ChannelOf(guild, channel_mapping[channel_data.id])
                parent == channel_data.category_id
            IN  IF parent # None /\ parent \in DOMAIN channel_mapping
                THEN /\ created.category_id = channel_mapping[parent]
                     /\ \E category \in Range(guild.channels) :
                           /\ category.id = channel_mapping[parent]
                           /\ category.type = "category"
                ELSE created.category_id = None

\* A run has created a channel under the category it created for the
\* recorded parent.
C25_Witness ==
    /\ pc = "done"
    /\ \E channel_data \in CreatedByRun :
          /\ channel_data.category_id # None
          /\ channel_data.category_id \in DOMAIN channel_mapping
          /\ channel_mapping[channel_data.category_id] \in
                 IdsDone(run, {"create_category"})

\* A run has created a channel whose recorded parent has no mapping, the
\* category's creation having failed.
C25_WitnessUnmapped ==
    /\ pc = "done"
    /\ \E channel_data \in CreatedByRun :
          /\ channel_data.category_id # None
          /\ channel_data.category_id \notin DOMAIN channel_mapping


\* C26: when the loop over the regular channels visits a snapshot channel
\* whose type is not category, text, voice or forum and whose name no target
\* channel has, it issues no call, creates no channel, records no id mapping
\* and no error, and goes on with the remaining channels.
C26_UnsupportedSkipped ==
    [][(/\ pc = "channels"
        /\ pc' = "channels"
        /\ todo # <<>>
        /\ Head(todo).type \notin SupportedTypes
        /\ \A channel \in Range(guild.channels) : channel.name # Head(todo).name)
       => /\ guild' = guild
          /\ calls' = calls
          /\ channel_mapping' = channel_mapping
          /\ stats' = stats
          /\ todo' = Tail(todo)]_vars

\* A run is over on a snapshot of a stage channel "general" followed by a
\* text channel "rules" and a target with no channel: only "rules" exists
\* and is mapped, and no error is recorded.
C26_Witness ==
    /\ run = 1
    /\ pc = "done"
    /\ Len(backup_data.channels) = 2
    /\ backup_data.channels[1].type = "stage_voice"
    /\ backup_data.channels[1].name = "general"
    /\ backup_data.channels[2].type = "text"
    /\ backup_data.channels[2].name = "rules"
    /\ starting.channels = <<>>
    /\ ChannelNames(guild) = {"rules"}
    /\ DOMAIN channel_mapping = {2}
    /\ stats.errors = <<>>


\* C27: at every point of a run, every value of role_mapping is the id of a
\* role the target has now, of the name of the snapshot role mapped to it,
\* and every value of channel_mapping is the id of a channel the target has
\* now, of the name of the snapshot channel mapped to it.
C27_MappingsLive ==
    pc # "none" =>
        /\ \A role_data \in Range(backup_data.roles) :
              role_data.id \in DOMAIN role_mapping =>
                  \E role \in Range(guild.roles) :
                      /\ role.id = role_mapping[role_data.id]
                      /\ role.name = role_data.name
        /\ DOMAIN role_mapping \subseteq
               {role_data.id : role_data \in Range(backup_data.roles)}
        /\ \A channel_data \in Range(backup_data.channels) :
              channel_data.id \in DOMAIN channel_mapping =>
                  \E channel \in Range(guild.channels) :
                      /\ channel.id = channel_mapping[channel_data.id]
                      /\ channel.name = channel_data.name
        /\ DOMAIN channel_mapping \subseteq
               {channel_data.id : channel_data \in Range(backup_data.channels)}

\* A run is over that mapped a snapshot role and a snapshot channel to
\* entities the target had, beside entities of other case that it kept, and
\* another snapshot channel to a channel it created.
C27_Witness ==
    /\ pc = "done"
    /\ \E id \in DOMAIN channel_mapping : channel_mapping[id] < FirstNewId
    /\ \E id \in DOMAIN channel_mapping : channel_mapping[id] >= FirstNewId
    /\ \E channel \in Range(guild.channels) : channel.name = "General"
    /\ \E channel \in Range(guild.channels) : channel.name = "general"

\* The same for the roles: a role mapped to a role the target had, the
\* target keeping a role of the same name in another case.
C27_WitnessRoles ==
    /\ pc = "done"
    /\ \E id \in DOMAIN role_mapping : role_mapping[id] < FirstNewId
    /\ \E role \in Range(guild.roles) : role.name = "Mods"
    /\ \E role \in Range(guild.roles) : role.name = "mods"


\* How many of the first n calls are calls of run r of operation op with
\* that outcome.
RECURSIVE CountCalls(_, _, _, _)
CountCalls(r, op, ok, n) ==
    IF n = 0 THEN 0
    ELSE CountCalls(r, op, ok, n - 1)
         + (IF /\ calls[n].run = r
               /\ calls[n].op = op
               /\ (calls[n].outcome = "ok") = ok
            THEN 1 ELSE 0)

\* The webhooks run r had created and not deleted after the first n calls.
RelaysLeft(r, n) ==
    CountCalls(r, "create_webhook", TRUE, n) - CountCalls(r, "webhook.delete", TRUE, n)

\* The last call among the first n that created a webhook, or 0.
LastRelayCreated(n) ==
    LET made == {k \in 1..n : /\ calls[k].op = "create_webhook"
                              /\ calls[k].outcome = "ok"}
    IN  IF made = {} THEN 0 ELSE CHOOSE k \in made : \A j \in made : j <= k

\* What the spec says of the relay, for the calls of the history: a message
\* is sent through a relay that exists and was created for its channel; a
\* relay is created when none of the run exists; at most one exists.
RelayDiscipline ==
    \A k \in DOMAIN calls :
        /\ calls[k].op = "webhook.send" =>
              /\ RelaysLeft(calls[k].run, k - 1) = 1
              /\ calls[LastRelayCreated(k - 1)].run = calls[k].run
              /\ calls[LastRelayCreated(k - 1)].id = calls[k].id
        /\ calls[k].op \in {"create_webhook", "channel.send"} =>
              RelaysLeft(calls[k].run, k - 1) = 0
        /\ RelaysLeft(calls[k].run, k) \in {0, 1}

RelayDeleteFailed(r) == CountCalls(r, "webhook.delete", FALSE, Len(calls)) > 0

MessageCeiling == 2000     \* if len(full_content) > 2000
TruncatedPrefix == 1997    \* full_content[:1997]
EllipsisLen == 3           \* len("...")
MaxNoteFiles == 5          \* attachments[:5]
UnknownFooterLen == 25     \* len("\n*Original time: Unknown*")
DefaultNameLen == 7        \* len("unknown"): ref.get("channel_name", "unknown")

MaxAttachments == 6        \* attachments of an archived message

\* len(s[:k])
Slice(n, k) == IF n < k THEN n ELSE k

\* No truncation at all.
Truncate_Off(n) == n

\* if len(s) > 2000: s = s[:1997] + "..."
Truncate(n) ==
    IF n > MessageCeiling THEN Slice(n, TruncatedPrefix) + EllipsisLen ELSE n

\* forwarded_note: empty, "*[Forwarded from #<channel_name>]*\n" for a
\* message with a reference, replaced by "*[Cross-server forward from
\* <guild_name>]*\n" for a cross-server forward.
ForwardedNote(message) ==
    IF message.is_cross_server_forward
    THEN 28 + message.cross_server_metadata.guild_name + 3
    ELSE IF message.reference.present
         THEN 18 + message.reference.channel_name + 3
         ELSE 0

\* content, which a cross-server forward without content takes from the
\* metadata's note as "*<note>*" when the note is non-empty.
Content(message) ==
    IF /\ message.is_cross_server_forward
       /\ message.content = 0
       /\ message.cross_server_metadata.note # 0
    THEN 1 + message.cross_server_metadata.note + 1
    ELSE message.content

\* footer_text: "\n*Original time: <formatted_time>*" where formatted_time
\* is the timestamp with "T" replaced by " " and "Z" by " UTC", or the
\* footer for an unknown time when the timestamp is empty.
FooterText(message) ==
    IF message.timestamp.len # 0
    THEN 17 + (message.timestamp.len + 3 * message.timestamp.zs) + 1
    ELSE UnknownFooterLen

\* The note appended for one attachment: none for a file that is attached,
\* "\n*[Attachment too large: <filename>]*",
\* "\n*[Attachment unavailable: <filename>]*" or
\* "\n*[Attachment not downloaded: <filename>]*".
AttachmentNote(attachment) ==
    CASE attachment.local = "attached" -> 0
      [] attachment.local = "too_large" -> 25 + attachment.filename + 2
      [] attachment.local = "unavailable" -> 27 + attachment.filename + 2
      [] attachment.local = "missing" -> 30 + attachment.filename + 2

RECURSIVE AttachmentNotes(_, _)
AttachmentNotes(attachments, n) ==
    IF n = 0 THEN 0
    ELSE AttachmentNotes(attachments, n - 1) + AttachmentNote(attachments[n])

\* files_to_send: the files among the first five attachments that exist and
\* are small enough.
FilesToSend(message, restore_media) ==
    IF restore_media
    THEN Cardinality({n \in 1..Slice(Len(message.attachments), MaxNoteFiles) :
                         message.attachments[n].local = "attached"})
    ELSE 0

\* full_content before the truncation.
Composed(message, restore_media) ==
    ForwardedNote(message) + Content(message) + FooterText(message)
    + (IF restore_media
       THEN AttachmentNotes(message.attachments,
                Slice(Len(message.attachments), MaxNoteFiles))
       ELSE 0)

FullContent(message, restore_media) == Truncate(Composed(message, restore_media))

\* f"**{username}**: {full_content}" before its truncation.
Formatted(message, restore_media) ==
    2 + message.author.username + 4 + FullContent(message, restore_media)

FormattedContent(message, restore_media) ==
    Truncate(Formatted(message, restore_media))

\* "if not content and not attachments and not embeds: return"
IsSkipped(message) ==
    /\ Content(message) = 0
    /\ Len(message.attachments) = 0
    /\ ~message.embeds

\* _restore_single_message(message, channel, webhook, restore_media) for the
\* one message of messages_to_restore.
RestoreSingleMessage ==
    /\ pc = "composing"
    /\ LET message == messages_to_restore[1]
           restore_media == config.restore_media
       IN  IF IsSkipped(message)
           THEN /\ pc' = "skipped"
                /\ UNCHANGED calls
           ELSE /\ pc' = "sent"
                /\ calls' = Append(calls,
                       [run |-> run,
                        op |-> IF webhook # None THEN "webhook.send"
                                                 ELSE "channel.send",
                        name |-> message.id,
                        id |-> 1,
                        outcome |-> "ok",
                        content |-> IF webhook # None
                                    THEN FullContent(message, restore_media)
                                    ELSE FormattedContent(message, restore_media),
                        files |-> FilesToSend(message, restore_media)])
    /\ UNCHANGED <<chainVars, cancelVars, backup_data, guild, config,
                   role_mapping, channel_mapping, stats, todo,
                   messages_to_restore, webhook, preview, run, next_id,
                   fail_budget, starting>>

ContentLens == {0, 1, 1975, 1976, 4000}

UsernameLens == {1, 32}

\* "", "2024-01-01T12:00:00.000000+00:00" and "2024-01-01T12:00:00Z"
Timestamps == {[len |-> 0, zs |-> 0], [len |-> 32, zs |-> 0], [len |-> 20, zs |-> 1]}

\* message.get("reference"): None, or a reference without a channel name.
References ==
    {[present |-> FALSE, channel_name |-> 0],
     [present |-> TRUE, channel_name |-> DefaultNameLen]}

CrossServerMetadata == [guild_name : {14}, note : {0, 10}]

AttachmentStates == {"attached", "too_large", "unavailable", "missing"}

AttachmentLists ==
    {<<>>} \cup
    {[n \in 1..k |-> [filename |-> 8, local |-> s]] :
         k \in 1..MaxAttachments, s \in AttachmentStates}

ReplayedMessages ==
    {[id |-> 1, content |-> c, author |-> [username |-> u], timestamp |-> t,
      reference |-> r, is_cross_server_forward |-> x,
      cross_server_metadata |-> md, attachments |-> a, embeds |-> e] :
        c \in ContentLens, u \in UsernameLens, t \in Timestamps,
        r \in References, x \in BOOLEAN, md \in CrossServerMetadata,
        a \in AttachmentLists, e \in BOOLEAN}

InitCompose ==
    /\ files = <<>>
    /\ chain = <<>>
    /\ merged = [status |-> "none"]
    /\ backup_files = <<>>
    /\ chains = <<>>
    /\ scanned = FALSE
    /\ backup_data = None
    /\ guild = None
    /\ config \in [restore_media : BOOLEAN]
    /\ role_mapping = <<>>
    /\ channel_mapping = <<>>
    /\ stats = None
    /\ pc = "composing"
    /\ todo = <<>>
    /\ messages_to_restore \in {<<message>> : message \in ReplayedMessages}
    /\ webhook \in {None, 1}
    /\ preview = None
    /\ run = 1
    /\ next_id = 0
    /\ fail_budget = 0
    /\ starting = None
    /\ calls = <<>>
    /\ cancel_budget = 0
    /\ cancelled = {}
    /\ original = None

NextCompose == RestoreSingleMessage

SpecCompose == InitCompose /\ [][NextCompose]_vars

SendCalls == {k \in DOMAIN calls : calls[k].op \in {"webhook.send", "channel.send"}}

\* C29: the content of every send call, through the relay or as the
\* operating identity with the author's name in front, is at most 2000
\* characters long, and a message whose composed text is within 2000
\* characters is sent through the relay as composed.
C29_ContentWithinCeiling ==
    \A k \in SendCalls :
        /\ calls[k].content <= MessageCeiling
        /\ LET composed == Composed(messages_to_restore[1], config.restore_media)
           IN  (calls[k].op = "webhook.send" /\ composed <= MessageCeiling)
                   => calls[k].content = composed

\* A message sent as the operating identity whose composed text was already
\* cut to 2000 characters and is cut again after the author's name is put in
\* front, with five attachment notes of six attachments.
C29_Witness ==
    /\ pc = "sent"
    /\ \E k \in SendCalls :
          /\ calls[k].op = "channel.send"
          /\ calls[k].content = MessageCeiling
          /\ Composed(messages_to_restore[1], config.restore_media) > MessageCeiling
          /\ Len(messages_to_restore[1].attachments) = MaxAttachments
          /\ messages_to_restore[1].attachments[1].local = "missing"
          /\ config.restore_media

(***************************************************************************)
(* The pauses of a channel's replay: the sleeps of _restore_messages.      *)
(*                                                                         *)
(* Delays are counted in units of the configured base delay's resolution;  *)
(* the multipliers 1.0, 2.0 and 3.0 of the code are whole numbers.         *)
(***************************************************************************)

MaxBaseDelay == 3      \* config["rate_limit_delay"], 0 included
MaxReplay == 7         \* messages of the replayed slice

BatchEvery == 5        \* if i % 5 == 0
BatchMultiplier == 3   \* _get_rate_limit_delay(3.0)
MessageMultiplier == 1 \* _get_rate_limit_delay(), multiplier = 1.0
ChannelMultiplier == 2 \* _get_rate_limit_delay(2.0)

\* The base delay whatever the multiplier.
get_rate_limit_delay_Flat(multiplier) == config.rate_limit_delay

\* _get_rate_limit_delay(multiplier): base_delay * multiplier
get_rate_limit_delay(multiplier) == config.rate_limit_delay * multiplier

\* One turn of "for i, message in enumerate(messages_to_restore)": the
\* message is sent and the pause after it slept, or the send raises and the
\* except clause continues with the next message without a pause.  todo is
\* the index i of the turn.
ReplayTurn ==
    /\ pc = "replaying"
    /\ todo < Len(messages_to_restore)
    /\ \E outcome \in {"ok", "HTTPException"} :
          calls' = Append(calls, [run |-> run, op |-> "send", name |-> todo,
                                  id |-> 1, outcome |-> outcome])
                   \o (IF outcome = "ok"
                       THEN <<[run |-> run, op |-> "sleep", name |-> todo,
                               id |-> 1, outcome |-> "ok",
                               after |-> "message",
                               delay |-> IF todo % BatchEvery = 0
                                         THEN get_rate_limit_delay(BatchMultiplier)
                                         ELSE get_rate_limit_delay(MessageMultiplier)]>>
                       ELSE <<>>)
    /\ todo' = todo + 1
    /\ UNCHANGED <<chainVars, cancelVars, backup_data, guild, config,
                   role_mapping, channel_mapping, stats, pc,
                   messages_to_restore, webhook, preview, run, next_id,
                   fail_budget, starting>>

\* After the loop: the pause between channels.
ChannelPause ==
    /\ pc = "replaying"
    /\ todo = Len(messages_to_restore)
    /\ calls' = Append(calls, [run |-> run, op |-> "sleep", name |-> None,
                               id |-> 1, outcome |-> "ok",
                               after |-> "channel",
                               delay |-> get_rate_limit_delay(ChannelMultiplier)])
    /\ pc' = "replayed"
    /\ UNCHANGED <<chainVars, cancelVars, backup_data, guild, config,
                   role_mapping, channel_mapping, stats, todo,
                   messages_to_restore, webhook, preview, run, next_id,
                   fail_budget, starting>>

InitThrottle ==
    /\ files = <<>>
    /\ chain = <<>>
    /\ merged = [status |-> "none"]
    /\ backup_files = <<>>
    /\ chains = <<>>
    /\ scanned = FALSE
    /\ backup_data = None
    /\ guild = None
    /\ config \in [rate_limit_delay : 0..MaxBaseDelay]
    /\ role_mapping = <<>>
    /\ channel_mapping = <<>>
    /\ stats = None
    /\ pc = "replaying"
    /\ todo = 0
    /\ \E n \in 1..MaxReplay :
          messages_to_restore = ArchivedMessages(n, {}, TRUE)
    /\ webhook = None
    /\ preview = None
    /\ run = 1
    /\ next_id = 0
    /\ fail_budget = 0
    /\ starting = None
    /\ calls = <<>>
    /\ cancel_budget = 0
    /\ cancelled = {}
    /\ original = None

NextThrottle == ReplayTurn \/ ChannelPause

SpecThrottle == InitThrottle /\ [][NextThrottle]_vars

\* The sleeps after a message, and the sleep after the channel.
MessagePauses ==
    {k \in DOMAIN calls : calls[k].op = "sleep" /\ calls[k].after = "message"}

ChannelPauses ==
    {k \in DOMAIN calls : calls[k].op = "sleep" /\ calls[k].after = "channel"}

\* C30 as stated: the pause after the channel is strictly longer than the
\* pause after every message of its replay.
C30_AsClaimed ==
    \A c \in ChannelPauses : \A p \in MessagePauses :
        calls[c].delay > calls[p].delay

\* C30: with a positive base delay the pause after the channel, twice the
\* base delay, is strictly longer than the pause after a message whose
\* index in the slice is no multiple of five, which is the base delay, and
\* strictly shorter than the pause after the messages of index 0, 5, 10,
\* ..., which is three times the base delay; a message whose send fails is
\* followed by no pause.
C30_Tiers ==
    /\ \A c \in ChannelPauses : \A p \in MessagePauses :
          /\ calls[c].delay = 2 * config.rate_limit_delay
          /\ calls[p].delay =
                 (IF calls[p].name % 5 = 0 THEN 3 ELSE 1) * config.rate_limit_delay
          /\ config.rate_limit_delay > 0 =>
                IF calls[p].name % 5 = 0
                THEN calls[c].delay < calls[p].delay
                ELSE calls[c].delay > calls[p].delay
    /\ \A k \in DOMAIN calls :
          calls[k].op = "send" =>
              (calls[k].outcome = "ok") =
                  (k < Len(calls) /\ (k + 1) \in MessagePauses
                   /\ calls[k + 1].name = calls[k].name)

\* A finished replay of seven messages with a positive base delay, pauses
\* after the messages of index 0, 1 and 5 and none after the failed message
\* of index 2.
C30_Witness ==
    /\ pc = "replayed"
    /\ config.rate_limit_delay > 0
    /\ Len(messages_to_restore) = MaxReplay
    /\ \A i \in {0, 1, 5} : \E p \in MessagePauses : calls[p].name = i
    /\ \A p \in MessagePauses : calls[p].name # 2

(***************************************************************************)
(* Errors that reach recreate_server.                                      *)
(***************************************************************************)

\* The calls of the history that raised an exception outside discord.py's
\* Forbidden and HTTPException: a failure of the connection beneath them.
ConnectionFailures == {k \in DOMAIN calls : calls[k].outcome = "ConnectionError"}

\* C31 as stated: a connection failure raised by a call inside a phase ends
\* the run: no later call of the run follows it, the run ends by raising and
\* the error is the last entry of the errors list.
C31_AsClaimed ==
    \A k \in ConnectionFailures :
        /\ \A j \in DOMAIN calls : j > k => calls[j].run # calls[k].run
        /\ calls[k].run = run =>
              /\ pc = "raised"
              /\ stats.errors # <<>>
              /\ stats.errors[Len(stats.errors)].text = "str(e)"

\* The run is over whose emoji loop the enforced limit stopped: the target
\* held as many emojis as its limit when the run started, the limit is not
\* bypassed, and the snapshot has an emoji with a file that the target does
\* not hold.
StoppedByEmojiLimit ==
    /\ pc = "done"
    /\ ~config.skip_media
    /\ ~config.ignore_emoji_limit
    /\ LimitReached(Len(starting.emojis), starting.emoji_limit)
    /\ Uploadable(backup_data.emojis, starting.emojis) # {}

\* C32 as stated: the stats returned by such a run record the skip, in the
\* errors list or in a counter beside the seven entries of a fresh stats.
C32_AsClaimed ==
    StoppedByEmojiLimit =>
        \/ stats.errors # <<>>
        \/ DOMAIN stats # DOMAIN FreshStats

(***************************************************************************)
(* Discovery and the order of the directory listing.                       *)
(***************************************************************************)

\* The sequence s backwards.
Backwards(s) == [i \in 1..Len(s) |-> s[Len(s) + 1 - i]]

\* What glob returns for the same files when the directory lists them in
\* the opposite order: a path that the listing holds twice is a file of the
\* scanned directory itself.
ListingBackwards ==
    GlobListing(Backwards([k \in 1..Len(files) |-> k]),
                [k \in 1..Len(files) |->
                    Cardinality({i \in DOMAIN backup_files : backup_files[i] = k}) = 2])

\* The keys of the chains and, for every key, the files of its chain.
Membership(cs) == [key \in DOMAIN cs |-> {cs[key][i].path : i \in DOMAIN cs[key]}]

\* C33 as stated: the scan of the same files listed in the opposite order
\* returns the same chain keys and the same files in every chain.
C33_AsClaimed ==
    scanned =>
        Membership(_discover_chains(ListingBackwards)) = Membership(chains)

(***************************************************************************)
(* The merged record of a channel that the base and an incremental hold.   *)
(***************************************************************************)

\* A channel record without its messages.
Attributes(channel_data) == [channel_data EXCEPT !.messages = <<>>]

\* The messages of channel c in the incrementals of the chain.
IncrementalMessages(c) ==
    UNION {Range(files[chain[n].path].channels[c].messages) :
              n \in {m \in 2..Len(chain) :
                        /\ chain[m].is_incremental
                        /\ c \in DOMAIN files[chain[m].path].channels}}

\* C34: a channel of the base that an incremental holds too comes out with
\* the base's attributes; every message of the base is in the merged list as
\* the base recorded it; a merged message whose id the base has is the
\* base's copy; and every other merged message is an incremental's message
\* whose id the base does not have.
C34_BaseRecordKept ==
    Returned =>
        \A c \in DOMAIN Full.channels :
            LET base == Full.channels[c].messages
                messages == merged.data.channels[c].messages
            IN  /\ Attributes(merged.data.channels[c]) = Attributes(Full.channels[c])
                /\ Range(base) \subseteq Range(messages)
                /\ \A n \in DOMAIN messages :
                      IF messages[n].id \in MessageIds(base)
                      THEN messages[n] \in Range(base)
                      ELSE messages[n] \in IncrementalMessages(c)

\* The base and the incremental both hold channel c1 and its message 1,
\* recorded differently; the incremental brings message 2; the merged
\* channel has the base's topic, the base's message 1 and message 2.
C34_Witness ==
    /\ Returned
    /\ Len(chain) = 2
    /\ chain[2].is_incremental
    /\ "c1" \in DOMAIN files[1].channels
    /\ "c1" \in DOMAIN files[2].channels
    /\ Attributes(files[1].channels["c1"]) # Attributes(files[2].channels["c1"])
    /\ MessageIds(files[1].channels["c1"].messages) = {1}
    /\ MessageIds(files[2].channels["c1"].messages) = {1, 2}
    /\ Range(files[1].channels["c1"].messages)
           \cap Range(files[2].channels["c1"].messages) = {}
    /\ Len(merged.data.channels["c1"].messages) = 2

(***************************************************************************)
(* The order of the messages in a merged snapshot.                         *)
(***************************************************************************)

\* Every channel of every file of the chain lists its messages in the order
\* the capture pass reads them: newest first.
CaptureOrdered ==
    \A n \in DOMAIN chain :
        \A c \in DOMAIN files[chain[n].path].channels :
            files[chain[n].path].channels[c].messages =
                _backup_channel_messages(
                    MessageIds(files[chain[n].path].channels[c].messages), n)

\* C35 as stated: in the snapshot merged from a base and at least one
\* incremental, all written by the capture pass, every channel's messages
\* are ordered ascending by timestamp.
C35_AsClaimed ==
    (Returned /\ FullThenIncrementals /\ Len(chain) >= 2 /\ CaptureOrdered) =>
        \A c \in DOMAIN merged.data.channels :
            Ascending(merged.data.channels[c].messages)

(***************************************************************************)
(* The messages_restored counter.                                          *)
(***************************************************************************)

\* C36 as stated: when the first run of a recreator is over, its
\* messages_restored counter is the number of send calls of the run that
\* succeeded.
C36_AsClaimed ==
    (pc = "done" /\ run = 1) =>
        stats.messages_restored =
            CountCalls(1, "webhook.send", TRUE, Len(calls))
            + CountCalls(1, "channel.send", TRUE, Len(calls))

(***************************************************************************)
(* The kind of the channel a snapshot channel is mapped to.                *)
(***************************************************************************)

\* C37 as stated: the target channel a snapshot channel is mapped to is of
\* the snapshot channel's type.
C37_AsClaimed ==
    pc # "none" =>
        \A channel_data \in Range(backup_data.channels) :
            channel_data.id \in DOMAIN channel_mapping =>
                \A channel \in Range(guild.channels) :
                    channel.id = channel_mapping[channel_data.id] =>
                        channel.type = channel_data.type

(***************************************************************************)
(* Names that differ only in letter case.                                  *)
(***************************************************************************)

\* Two of the entities have names that differ in letter case only.
CaseVariants(entities) ==
    \E a, b \in DOMAIN entities :
        /\ entities[a].name # entities[b].name
        /\ Lower(entities[a].name) = Lower(entities[b].name)

\* C38 as stated: a run started on a target without roles or channels whose
\* names differ in letter case only leaves none.
C38_AsClaimed ==
    (/\ run >= 1
     /\ ~CaseVariants(starting.roles)
     /\ ~CaseVariants(starting.channels)) =>
        /\ ~CaseVariants(guild.roles)
        /\ ~CaseVariants(guild.channels)

(***************************************************************************)
(* Two runs with the same snapshot against the same target.                *)
(***************************************************************************)

\* The pairs <<message id, target channel id>> of the sends of run r that
\* succeeded, and their number.
SentBy(r) ==
    {<<calls[k].name, calls[k].id>> :
        k \in {j \in DOMAIN calls :
                  /\ calls[j].run = r
                  /\ calls[j].op \in {"webhook.send", "channel.send"}
                  /\ calls[j].outcome = "ok"}}

SendCount(r) ==
    CountCalls(r, "webhook.send", TRUE, Len(calls))
    + CountCalls(r, "channel.send", TRUE, Len(calls))

\* The messages of the replay slices of the snapshot's channels that are
\* mapped to a text channel of the target, with the channel they go to;
\* with_empty tells whether the messages without content count.
ReplaySlices(with_empty) ==
    UNION {LET messages == MessagesToRestore(channel_data.messages,
                                             config.restore_max_messages)
           IN  {<<messages[n].id, RestoreTarget(channel_data).id>> :
                   n \in {i \in DOMAIN messages :
                             with_empty \/ ~IsEmptyMessage(messages[i])}} :
           channel_data \in {cd \in Range(backup_data.channels) :
                                RestoreTarget(cd).id # None}}

\* Two runs are over, no call failed and no run was cancelled.
TwoRunsOver ==
    /\ run = 2
    /\ pc = "done"
    /\ NoTransportFailures
    /\ cancelled = {}

\* C39 as stated: both runs send every message of every replay slice.
C39_AsClaimed ==
    TwoRunsOver =>
        \A r \in {1, 2} : SentBy(r) = ReplaySlices(TRUE)

\* C39 (amended): when both runs are over and no call failed, each run has
\* sent, once, every message of every replay slice that has content, an
\* attachment or an embed, to the channel the snapshot channel is mapped to:
\* the second run sends again what the first run sent.
C39_SentTwice ==
    TwoRunsOver =>
        \A r \in {1, 2} :
            /\ SentBy(r) = ReplaySlices(FALSE)
            /\ SendCount(r) = Cardinality(ReplaySlices(FALSE))

\* Two runs are over that each sent the two messages of a slice that have
\* content and left out the one that has none.
C39_Witness ==
    /\ TwoRunsOver
    /\ Cardinality(ReplaySlices(FALSE)) = 2
    /\ Cardinality(ReplaySlices(TRUE)) = 3
    /\ SendCount(1) = 2
    /\ SendCount(2) = 2

=============================================================================
